---- MODULE Spec2Model ----
(***************************************************************************)
(* Text-report parsing layer of the SDB quality dashboard:                 *)
(* QualityDataCollector._parse_text_prbs, _parse_text_bugs,                *)
(* _parse_salesforce_issues, _parse_security_issues,                       *)
(* _parse_ss_security_bugs (quality_report_generator.py) and               *)
(* QualityReportDashboard.parse_ci_data, parse_security_data,              *)
(* parse_leftshift_data (streamlit_app.py), and                            *)
(* QualityDataCollector._parse_text_risks.                                 *)
(*                                                                         *)
(* A document is the list content.split('\n'): a non-empty sequence of     *)
(* strings.  Line indices are 0-based as in the source; At(lines, j) is    *)
(* lines[j].  Strings are TLA+ strings, so substring tests, regular        *)
(* expression searches, strip(), split() and the date conversions are      *)
(* computed character by character.                                        *)
(***************************************************************************)
EXTENDS Integers, Sequences, FiniteSets, TLC

VARIABLES parser, lines, pc, i, out, result, clock, current_team,
          current_priority, sect, run, prev, other, current_risk

vars == <<parser, lines, pc, i, out, result, clock, current_team,
          current_priority, sect, run, prev, other, current_risk>>

(***************************************************************************)
(* Python string primitives                                                *)
(***************************************************************************)
Min(a, b) == IF a < b THEN a ELSE b

Max(a, b) == IF a > b THEN a ELSE b

MaxOf(S) == CHOOSE x \in S : \A y \in S : y <= x

MinOf(S) == CHOOSE x \in S : \A y \in S : x <= y

\* the characters of s at the 1-based positions a..b that exist in s
Sub(s, a, b) ==
    IF Max(a, 1) > Min(b, Len(s)) THEN "" ELSE SubSeq(s, Max(a, 1), Min(b, Len(s)))

\* s[p-1:p]: the character at the 1-based position p, '' outside s
Ch(s, p) == Sub(s, p, p)

\* s[a:b] of Python for 0 <= a, clipped at len(s)
Slice(s, a, b) == Sub(s, a + 1, b)

\* lines[j], j 0-based
At(ls, j) == ls[j + 1]

Digits == {"0", "1", "2", "3", "4", "5", "6", "7", "8", "9"}

Whitespace == {" "}

\* sub in s
In(sub, s) == \E p \in 1..(Len(s) - Len(sub) + 1) : Sub(s, p, p + Len(sub) - 1) = sub

StartsWith(s, pre) == Len(pre) <= Len(s) /\ Sub(s, 1, Len(pre)) = pre

EndsWith(s, suf) == Len(suf) <= Len(s) /\ Sub(s, Len(s) - Len(suf) + 1, Len(s)) = suf

RECURSIVE Strip(_)
\* s.strip()
Strip(s) ==
    IF s = "" THEN ""
    ELSE IF Ch(s, 1) \in Whitespace THEN Strip(Sub(s, 2, Len(s)))
    ELSE IF Ch(s, Len(s)) \in Whitespace THEN Strip(Sub(s, 1, Len(s) - 1))
    ELSE s

\* len(s.split()): the number of maximal runs of non-whitespace
WordCount(s) ==
    Cardinality({p \in 1..Len(s) : Ch(s, p) \notin Whitespace
                                   /\ (p = 1 \/ Ch(s, p - 1) \in Whitespace)})

\* s.split(sep, 1)[1] when sep occurs in s
AfterFirst(s, sep) ==
    LET p == MinOf({q \in 1..(Len(s) - Len(sep) + 1) : Sub(s, q, q + Len(sep) - 1) = sep})
    IN  Sub(s, p + Len(sep), Len(s))

\* s.split(sep)[0]
BeforeFirst(s, sep) ==
    IF In(sep, s)
    THEN LET p == MinOf({q \in 1..(Len(s) - Len(sep) + 1) : Sub(s, q, q + Len(sep) - 1) = sep})
         IN  Sub(s, 1, p - 1)
    ELSE s

UpperCase == <<"A", "B", "C", "D", "E", "F", "G", "H", "I", "J", "K", "L", "M",
               "N", "O", "P", "Q", "R", "S", "T", "U", "V", "W", "X", "Y", "Z">>

LowerCase == <<"a", "b", "c", "d", "e", "f", "g", "h", "i", "j", "k", "l", "m",
               "n", "o", "p", "q", "r", "s", "t", "u", "v", "w", "x", "y", "z">>

LowerCh(c) ==
    IF \E k \in 1..26 : UpperCase[k] = c
    THEN LowerCase[CHOOSE k \in 1..26 : UpperCase[k] = c]
    ELSE c

RECURSIVE Lower(_)
\* s.lower()
Lower(s) ==
    IF Len(s) <= 1 THEN LowerCh(s)
    ELSE Lower(Sub(s, 1, Len(s) \div 2)) \o Lower(Sub(s, Len(s) \div 2 + 1, Len(s)))

RECURSIVE Remove(_, _)
\* s.replace(old, '') for a non-empty old: every occurrence, left to right
Remove(s, old) ==
    IF In(old, s)
    THEN BeforeFirst(s, old) \o Remove(AfterFirst(s, old), old)
    ELSE s

RECURSIVE Join(_, _)
\* sep.join(parts)
Join(parts, sep) ==
    IF parts = <<>> THEN ""
    ELSE IF Len(parts) = 1 THEN parts[1]
    ELSE parts[1] \o sep \o Join(Tail(parts), sep)

AllDigits(s, p, n) == p >= 1 /\ p + n - 1 <= Len(s) /\ \A q \in p..(p + n - 1) : Ch(s, q) \in Digits

DigitVal(c) == CHOOSE v \in 0..9 : <<"0", "1", "2", "3", "4", "5", "6", "7", "8", "9">>[v + 1] = c

RECURSIVE ToInt(_)
\* int(s) for a string of decimal digits
ToInt(s) == IF s = "" THEN 0 ELSE 10 * ToInt(Sub(s, 1, Len(s) - 1)) + DigitVal(Ch(s, Len(s)))

RECURSIVE ToStr(_)
\* str(n) for n >= 0
ToStr(n) ==
    IF n < 10 THEN <<"0", "1", "2", "3", "4", "5", "6", "7", "8", "9">>[n + 1]
    ELSE ToStr(n \div 10) \o ToStr(n % 10)

\* s.zfill(2)
ZFill2(s) == IF Len(s) < 2 THEN "0" \o s ELSE s

(***************************************************************************)
(* Regular expressions of the parsers, as re.search evaluates them:        *)
(* leftmost match, greedy quantifiers, alternatives in order.              *)
(***************************************************************************)
\* start positions of W-\d{8}
WorkIdAt(s) == {p \in 1..Len(s) : Sub(s, p, p + 1) = "W-" /\ AllDigits(s, p + 2, 8)}

\* re.search(r'W-\d{8}', s).group()
WorkId(s) == Sub(s, MinOf(WorkIdAt(s)), MinOf(WorkIdAt(s)) + 9)

\* start positions of PRB-\d{7}
PrbIdAt(s) == {p \in 1..Len(s) : Sub(s, p, p + 3) = "PRB-" /\ AllDigits(s, p + 4, 7)}

\* re.search(r'PRB-\d{7}', s).group()
PrbId(s) == Sub(s, MinOf(PrbIdAt(s)), MinOf(PrbIdAt(s)) + 10)

\* start positions of P([0-4])\(\d+\)
TierParenAt(s) ==
    {p \in 1..Len(s) :
        /\ Ch(s, p) = "P"
        /\ p + 1 <= Len(s) /\ Ch(s, p + 1) \in {"0", "1", "2", "3", "4"}
        /\ p + 2 <= Len(s) /\ Ch(s, p + 2) = "("
        /\ \E n \in 1..Len(s) : AllDigits(s, p + 3, n) /\ p + 3 + n <= Len(s) /\ Ch(s, p + 3 + n) = ")"}

\* re.search(r'P([0-4])\(\d+\)', s).group(1)
TierParenDigit(s) == Ch(s, MinOf(TierParenAt(s)) + 1)

\* start positions of P[1-4]
Tier14At(s) == {p \in 1..(Len(s) - 1) : Ch(s, p) = "P" /\ Ch(s, p + 1) \in {"1", "2", "3", "4"}}

\* re.search(r'P[1-4]', s).group()
Tier14(s) == Sub(s, MinOf(Tier14At(s)), MinOf(Tier14At(s)) + 1)

\* the match of \d{1,2}/\d{1,2}/\d{4} that starts at p, as <<month, day, year>>, or <<>>
DateAt(s, p) ==
    LET a == IF AllDigits(s, p, 2) THEN 2 ELSE 1
        q == p + a + 1
        b == IF AllDigits(s, q, 2) THEN 2 ELSE 1
        r == q + b + 1
    IN  IF /\ AllDigits(s, p, a) /\ p + a <= Len(s) /\ Ch(s, p + a) = "/"
           /\ AllDigits(s, q, b) /\ q + b <= Len(s) /\ Ch(s, q + b) = "/"
           /\ AllDigits(s, r, 4)
        THEN <<Sub(s, p, p + a - 1), Sub(s, q, q + b - 1), Sub(s, r, r + 3)>>
        ELSE <<>>

HasDate(s) == \E p \in 1..Len(s) : DateAt(s, p) # <<>>

\* re.search(r'(\d{1,2}/\d{1,2}/\d{4})', s) as <<month, day, year>>
DateMatch(s) == DateAt(s, MinOf({p \in 1..Len(s) : DateAt(s, p) # <<>>}))

DaysIn(m, y) ==
    IF m = 2 THEN (IF (y % 4 = 0 /\ y % 100 # 0) \/ y % 400 = 0 THEN 29 ELSE 28)
    ELSE IF m \in {4, 6, 9, 11} THEN 30 ELSE 31

\* datetime.strptime(date_str, '%m/%d/%Y') does not raise ValueError
StrptimeOk(mdy) ==
    LET m == ToInt(mdy[1])
        d == ToInt(mdy[2])
        y == ToInt(mdy[3])
    IN  m \in 1..12 /\ y >= 1 /\ d >= 1 /\ d <= DaysIn(m, y)

\* a conversion that takes the day for the month
StrftimeDayFirst(mdy) ==
    ToStr(ToInt(mdy[3])) \o "-" \o ZFill2(ToStr(ToInt(mdy[2]))) \o "-" \o ZFill2(ToStr(ToInt(mdy[1])))

\* datetime.strptime(date_str, '%m/%d/%Y').strftime('%Y-%m-%d')
Strftime(mdy) ==
    ToStr(ToInt(mdy[3])) \o "-" \o ZFill2(ToStr(ToInt(mdy[1]))) \o "-" \o ZFill2(ToStr(ToInt(mdy[2])))

RECURSIVE VersionEnd(_, _)
\* the end of the greedy (\.\d+)* that continues a match ending at position e
VersionEnd(s, e) ==
    IF e + 2 <= Len(s) /\ Ch(s, e + 1) = "." /\ Ch(s, e + 2) \in Digits
    THEN LET n == MaxOf({k \in 1..Len(s) : AllDigits(s, e + 2, k)})
         IN  VersionEnd(s, e + 1 + n)
    ELSE e

\* start positions of sdb\.\d+
VersionAt(s) == {p \in 1..Len(s) : Sub(s, p, p + 3) = "sdb." /\ AllDigits(s, p + 4, 1)}

\* re.search(r'sdb\.\d+(\.\d+)*', s).group()
Version(s) ==
    LET p == MinOf(VersionAt(s))
        n == MaxOf({k \in 1..Len(s) : AllDigits(s, p + 4, k)})
    IN  Sub(s, p, VersionEnd(s, p + 3 + n))

\* the extension 'c|cpp|h|java|py' matched at position q, first alternative first
PathExt(s, q) ==
    IF Sub(s, q, q) = "c" THEN "c"
    ELSE IF Sub(s, q, q + 2) = "cpp" THEN "cpp"
    ELSE IF Sub(s, q, q) = "h" THEN "h"
    ELSE IF Sub(s, q, q + 3) = "java" THEN "java"
    ELSE IF Sub(s, q, q + 1) = "py" THEN "py"
    ELSE ""

\* positions d of a '.' that can end /[^()]+ started at the '/' at p
PathDots(s, p) ==
    {d \in (p + 2)..Len(s) :
        /\ Ch(s, d) = "."
        /\ \A q \in (p + 1)..(d - 1) : Ch(s, q) \notin {"(", ")"}
        /\ PathExt(s, d + 1) # ""}

PathAt(s) == {p \in 1..Len(s) : Ch(s, p) = "/" /\ PathDots(s, p) # {}}

\* re.search(r'/[^()]+\.(c|cpp|h|java|py)', s).group()
Path(s) ==
    LET p == MinOf(PathAt(s))
        d == MaxOf(PathDots(s, p))
    IN  Sub(s, p, d + Len(PathExt(s, d + 1)))

(***************************************************************************)
(* Helpers for the forward scans of a context window                       *)
(***************************************************************************)
\* range(a, b)
Range(a, b) == a..(b - 1)

\* the first entry of the ordered list pats that occurs in s (for ... break)
FirstIn(pats, s) == pats[MinOf({k \in 1..Len(pats) : In(pats[k], s)})]

\* the last entry of the ordered list pats that occurs in s (for without break)
LastIn(pats, s) == pats[MaxOf({k \in 1..Len(pats) : In(pats[k], s)})]

\* some entry of pats occurs in s
AnyIn(pats, s) == \E k \in 1..Len(pats) : In(pats[k], s)

\* a variable that keeps the first value assigned to it
LastAssigned_first(vals, init) ==
    IF DOMAIN vals = {} THEN init ELSE vals[MinOf(DOMAIN vals)]

\* a variable holding init before a forward scan and assigned vals[j] at every
\* index j of DOMAIN vals, in ascending order: the last assignment stands
LastAssigned(vals, init) ==
    IF DOMAIN vals = {} THEN init ELSE vals[MaxOf(DOMAIN vals)]

\* a variable holding init before a forward scan that assigns vals[j] at the
\* first index j of DOMAIN vals and breaks
FirstAssigned(vals, init) ==
    IF DOMAIN vals = {} THEN init ELSE vals[MinOf(DOMAIN vals)]

\* datetime.now().strftime('%Y-%m-%d') on the day numbered c
Today(c) == "2026-11-" \o ZFill2(ToStr(c))

(***************************************************************************)
(* QualityDataCollector._parse_text_bugs                                   *)
(***************************************************************************)
BugCap == 30

bug_team_patterns ==
    <<"Sayonara TxP", "SDB Query Proc Optimizer", "Sayonara Data Management",
      "Sayonara Foundation Services", "SDBStore", "SDB QP Execution",
      "SDB TxP Work Queue", "SDBStore Work Queue">>

bug_status_patterns == <<"New", "In Progress", "Triaged", "Open", "Resolved", "Closed">>

RECURSIVE SectionScan(_, _, _)
\* the loop over enumerate(lines) that finds the 'P1(2)' and 'P2(11)' header lines
SectionScan(ls, k, st) ==
    IF k >= Len(ls) THEN st
    ELSE IF In("P1(2)", At(ls, k))
         THEN SectionScan(ls, k + 1, [st EXCEPT !.p1_start = k])
         ELSE IF In("P2(11)", At(ls, k))
              THEN SectionScan(ls, k + 1,
                               [st EXCEPT !.p2_start = k,
                                          !.p1_end = IF st.p1_start > 0 THEN k - 1 ELSE st.p1_end])
              ELSE SectionScan(ls, k + 1, st)

\* p1_start, p1_end, p2_start, p2_end after 'Set reasonable end boundaries'
SectionBounds(ls) ==
    LET st == SectionScan(ls, 0, [p1_start |-> 0, p1_end |-> 0, p2_start |-> 0, p2_end |-> 0])
        p2e == IF st.p2_start > 0 THEN Len(ls) ELSE st.p2_end
        p1e == IF st.p1_end = 0 /\ st.p1_start > 0
               THEN (IF st.p2_start > 0 THEN st.p2_start - 1 ELSE st.p1_start + 30)
               ELSE st.p1_end
    IN  [st EXCEPT !.p2_end = p2e, !.p1_end = p1e]

\* the severity of the section that holds line k
bug_severity(st, k) ==
    IF st.p1_start <= k /\ k <= st.p1_end THEN "P1-High"
    ELSE IF st.p2_start <= k /\ k <= st.p2_end THEN "P2-Medium"
    ELSE "P2-Medium"

bug_context_start(ls, k) == Max(0, k - 3)

\* the longest decimal string int() converts (sys.int_info.default_max_str_digits)
int_max_str_digits == 4300

\* the number of consecutive digits of s from position p on
DigitRun(s, p) ==
    LET stop == {q \in p..Len(s) : Ch(s, q) \notin Digits}
    IN  IF stop = {} THEN Len(s) - p + 1 ELSE MinOf(stop) - p

\* start positions of P([0-4])\((\d+)\)
bug_count_at(s) ==
    {p \in 1..Len(s) :
        /\ Ch(s, p) = "P"
        /\ Ch(s, p + 1) \in {"0", "1", "2", "3", "4"}
        /\ Ch(s, p + 2) = "("
        /\ DigitRun(s, p + 3) >= 1
        /\ Ch(s, p + 3 + DigitRun(s, p + 3)) = ")"}

\* count = int(priority_match.group(2)) raises ValueError on some line
bug_count_raises(ls) ==
    \E j \in 1..Len(ls) :
        LET s == Strip(ls[j])
        IN  bug_count_at(s) # {} /\ DigitRun(s, MinOf(bug_count_at(s)) + 3) > int_max_str_digits

\* a window end that is not clipped to the document
bug_context_end_unclipped(ls, k) == k + 8

bug_context_end(ls, k) == Min(Len(ls), k + 8)

\* a line taken as the assignee's name at window index j of the anchor at k
bug_is_assignee(ls, k, j) ==
    LET c == Strip(At(ls, j))
    IN  /\ j > k + 2 /\ c # "" /\ c # "-"
        /\ WordCount(c) = 2
        /\ ~ \E tech \in ({"sdb", "queue", "falcon", "usa", "ind", "deu", "gbr"}) : In(tech, Lower(c))

\* a title cut at the limit with nothing appended
bug_title_cut(ls, k) ==
    IF k + 1 < Len(ls)
    THEN LET t == Strip(At(ls, k + 1))
         IN  IF t # "" /\ t # "-" /\ Len(t) > 10
             THEN IF In("[EA][PROD]", t) THEN Slice(t, 0, 80) ELSE Slice(t, 0, 100)
             ELSE "Unknown Issue"
    ELSE "Unknown Issue"

\* the title: the line right after the Work ID
bug_title(ls, k) ==
    IF k + 1 < Len(ls)
    THEN LET t == Strip(At(ls, k + 1))
         IN  IF t # "" /\ t # "-" /\ Len(t) > 10
             THEN IF In("[EA][PROD]", t)
                  THEN Slice(t, 0, 80) \o (IF Len(t) > 80 THEN "..." ELSE "")
                  ELSE Slice(t, 0, 100) \o (IF Len(t) > 100 THEN "..." ELSE "")
             ELSE "Unknown Issue"
    ELSE "Unknown Issue"

\* the line indices read while the record of the anchor at k is built
bug_reads(ls, k) ==
    Range(bug_context_start(ls, k), bug_context_end(ls, k))
        \cup (IF k + 1 < Len(ls) THEN {k + 1} ELSE {})

\* the BugItem built for the anchor at line k
BugItem(ls, k, st, now) ==
    LET J == Range(bug_context_start(ls, k), bug_context_end(ls, k))
        C == [j \in J |-> Strip(At(ls, j))]
        component == [j \in {j \in J : AnyIn(bug_team_patterns, C[j])} |-> FirstIn(bug_team_patterns, C[j])]
        status == [j \in {j \in J : \E t \in 1..Len(bug_status_patterns) : C[j] = bug_status_patterns[t]} |-> C[j]]
        reported_date == [j \in {j \in J : HasDate(C[j]) /\ StrptimeOk(DateMatch(C[j]))} |->
                             Strftime(DateMatch(C[j]))]
        customer == [j \in {j \in J : In("SDBFalcon", C[j])} |-> C[j]]
        assigned_to == [j \in {j \in J : bug_is_assignee(ls, k, j)} |-> C[j]]
    IN  [id |-> WorkId(Strip(At(ls, k))),
         title |-> bug_title(ls, k),
         severity |-> bug_severity(st, k),
         status |-> LastAssigned(status, "Open"),
         description |-> "Assigned: " \o LastAssigned(assigned_to, "Unknown")
                             \o ", Customer: " \o LastAssigned(customer, "Unknown"),
         component |-> LastAssigned(component, "Unknown"),
         reported_date |-> LastAssigned(reported_date, now)]

(***************************************************************************)
(* QualityDataCollector._parse_salesforce_issues                           *)
(***************************************************************************)
sf_team_patterns ==
    <<"Sayonara Data Management", "Sayonara Foundation Services",
      "Sayonara TxP", "SDB Catalog Services", "SDB Engine Health",
      "SDB Query Proc", "SDBStore", "SDB Production Readiness">>

sf_status_patterns == <<"New", "In Progress", "Triaged", "Ready for Review", "Waiting">>

sf_context_start(ls, k) == Max(0, k - 15)

sf_context_end(ls, k) == Min(Len(ls), k + 10)

\* the line indices read while the record of the anchor at k is built
sf_reads(ls, k) == Range(sf_context_start(ls, k), sf_context_end(ls, k))

\* the dict built for the anchor at line k
SalesforceIssue(ls, k, now) ==
    LET J == Range(sf_context_start(ls, k), sf_context_end(ls, k))
        C == [j \in J |-> Strip(At(ls, j))]
        team == [j \in {j \in J : AnyIn(sf_team_patterns, C[j])} |-> LastIn(sf_team_patterns, C[j])]
        priority == [j \in {j \in J : Tier14At(C[j]) # {}} |-> Tier14(C[j])]
        status == [j \in {j \in J : AnyIn(sf_status_patterns, C[j])} |-> LastIn(sf_status_patterns, C[j])]
        build_version == [j \in {j \in J : VersionAt(C[j]) # {}} |-> Version(C[j])]
        subject == [j \in {j \in J : j = k + 1 /\ Len(C[j]) > 10 /\ ~ StartsWith(C[j], "Subtotal")} |->
                       Slice(C[j], 0, 150)]
        created_date == [j \in {j \in J : HasDate(C[j])} |->
                            LET mdy == DateMatch(C[j])
                            IN  mdy[3] \o "-" \o ZFill2(mdy[1]) \o "-" \o ZFill2(mdy[2])]
    IN  [work_id |-> WorkId(Strip(At(ls, k))),
         team |-> LastAssigned(team, "Unknown"),
         priority |-> LastAssigned(priority, "P2"),
         subject |-> LastAssigned(subject, "Unknown Issue"),
         status |-> LastAssigned(status, "New"),
         build_version |-> LastAssigned(build_version, "Unknown"),
         created_date |-> LastAssigned(created_date, now)]

(***************************************************************************)
(* QualityDataCollector._parse_security_issues                             *)
(***************************************************************************)
security_categories ==
    <<"RESOURCE_LEAK", "OVERRUN", "USE_AFTER_FREE", "UNINIT", "NO_EFFECT", "ARRAY_VS_SINGLETON">>

sec_context_start(ls, k) == Max(0, k - 5)

sec_context_end(ls, k) == Min(Len(ls), k + 8)

\* the line indices read while the record of the anchor at k is built
sec_reads(ls, k) == Range(sec_context_start(ls, k), sec_context_end(ls, k))

\* a line taken as the assignee's name at window index j of the anchor at k
sec_is_assignee(ls, k, j) ==
    LET c == Strip(At(ls, j))
    IN  /\ j > k /\ Len(c) > 5 /\ c # "New" /\ ~ StartsWith(c, "sdb.")
        /\ In(" ", c) /\ WordCount(c) = 2
        /\ ~ \E x \in ({"test", "error", "exception"}) : In(x, Lower(c))

\* the SecurityIssue built for the anchor at line k
SecurityIssue(ls, k) ==
    LET J == Range(sec_context_start(ls, k), sec_context_end(ls, k))
        C == [j \in J |-> Strip(At(ls, j))]
        categorised == {j \in J : AnyIn(security_categories, C[j])}
        issue_category == [j \in categorised |-> LastIn(security_categories, C[j])]
        file_path == [j \in {j \in categorised : In("/", C[j]) /\ PathAt(C[j]) # {}} |-> Path(C[j])]
        assigned_to == [j \in {j \in J : sec_is_assignee(ls, k, j)} |-> C[j]]
        build_version == [j \in {j \in J : VersionAt(C[j]) # {}} |-> Version(C[j])]
        team == [j \in {j \in J : In("Sayonara", C[j])} |-> C[j]]
    IN  [work_id |-> WorkId(Strip(At(ls, k))),
         issue_category |-> LastAssigned(issue_category, "UNKNOWN"),
         file_path |-> LastAssigned(file_path, ""),
         assigned_to |-> LastAssigned(assigned_to, "Unassigned"),
         status |-> "New",
         build_version |-> LastAssigned(build_version, "Unknown"),
         team |-> LastAssigned(team, "Security"),
         issue_type |-> "Security"]

(***************************************************************************)
(* Section-state trackers.  A running value is <<>> for None and <<v>>     *)
(* for the string v.                                                       *)
(***************************************************************************)
None == <<>>

Some(v) == <<v>>

\* x or default
OrDefault(x, default) == IF x = None \/ x = Some("") THEN default ELSE x[1]

tier_tokens == {"P0", "P1", "P2", "P3", "P4"}

\* _extract_issue_category
extract_issue_category(description) ==
    IF In("RESOURCE_LEAK", description) THEN "Resource Leak"
    ELSE IF In("ARRAY_VS_SINGLETON", description) THEN "Array vs Singleton"
    ELSE IF In("OVERRUN", description) THEN "Buffer Overrun"
    ELSE IF In("USE_AFTER_FREE", description) THEN "Use After Free"
    ELSE IF In("UNINIT", description) THEN "Uninitialized Variable"
    ELSE IF In("NO_EFFECT", description) THEN "No Effect"
    ELSE "Other"

\* the labels of the problem reports, appended to the running priority
ss_label_as_prb(p) ==
    IF p = "P0" THEN "Critical"
    ELSE IF p = "P1" THEN "High"
    ELSE IF p = "P2" THEN "Medium"
    ELSE IF p = "P3" THEN "Low"
    ELSE "Minimal"

\* the label _parse_ss_security_bugs appends to the running priority
ss_label(p) ==
    IF p \in {"P0", "P1"} THEN "Critical"
    ELSE IF p = "P2" THEN "Medium"
    ELSE "Low"

\* the line at k + d as it stands, when the line exists
ss_field_verbatim(ls, k, d, default) ==
    IF k + d < Len(ls) THEN Strip(At(ls, k + d)) ELSE default

\* lines[k + d].strip() or default, when the line exists
ss_field(ls, k, d, default) ==
    IF k + d < Len(ls)
    THEN (IF Strip(At(ls, k + d)) = "" THEN default ELSE Strip(At(ls, k + d)))
    ELSE default

\* the line indices read while the record of the anchor at k is built
ss_reads(ls, k) == {k + d : d \in {d \in 1..4 : k + d < Len(ls)}}

\* a cursor that moves on to the next line after an anchor
ss_after_anchor_noskip(k) == k + 1

\* the cursor after an anchor at k: i += 4 to skip the positional lines, then i += 1
ss_after_anchor(k) == k + 4 + 1

ss_is_priority_line(line) == StartsWith(line, "P") /\ In("(", line)

ss_is_team_line(line) == In("(", line) /\ EndsWith(line, ")") /\ ~ StartsWith(line, "W-")

\* the dict built for the anchor at line k under the running team and priority
SecurityBug(ls, k, team, priority) ==
    LET desc == ss_field(ls, k, 4, "Security Issue")
    IN  [id |-> Strip(At(ls, k)),
         title |-> desc,
         priority |-> priority \o "-" \o ss_label(priority),
         severity |-> priority \o "-" \o ss_label(priority),
         status |-> ss_field(ls, k, 3, "Unknown"),
         component |-> team,
         assignee |-> ss_field(ls, k, 2, "Unknown"),
         build_version |-> ss_field(ls, k, 1, "Unknown"),
         description |-> desc,
         type |-> "security",
         issue_category |-> extract_issue_category(desc)]

ci_skip_words == {"sorted by", "select row", "drill down", "work:", "subtotal", "total("}

leftshift_skip_words == {"sorted by", "select row", "work:", "subtotal", "total("}

\* a line the dashboard trackers skip: blank, or holding a skip word
dash_skipped(line, skip_words) == line = "" \/ \E w \in skip_words : In(w, Lower(line))

\* a team-header test that knows one team keyword only
ci_is_team_line_sdb_only(line) ==
    /\ line # "" /\ In("(", line) /\ EndsWith(line, ")")
    /\ ~ StartsWith(line, "P") /\ ~ StartsWith(line, "W-")
    /\ ~ In("issues)", line) /\ ~ In("/", line) /\ ~ In("-", line)
    /\ In("SDB", line)

\* the team-header test of parse_ci_data and parse_security_data
ci_is_team_line(line) ==
    /\ line # "" /\ In("(", line) /\ EndsWith(line, ")")
    /\ ~ StartsWith(line, "P") /\ ~ StartsWith(line, "W-")
    /\ ~ In("issues)", line) /\ ~ In("/", line) /\ ~ In("-", line)
    /\ \E kw \in {"Sayonara", "SDB"} : In(kw, line)

\* the team-header test of parse_leftshift_data
leftshift_is_team_line(line) ==
    /\ line # "" /\ In("(", line) /\ EndsWith(line, ")")
    /\ ~ StartsWith(line, "P") /\ ~ StartsWith(line, "W-")
    /\ \E kw \in {"SDB", "Sayonara", "Production"} : In(kw, line)

dash_is_priority_line(line) == StartsWith(line, "P") /\ In("(", line) /\ EndsWith(line, ")")

ci_issue(line, team, priority) ==
    [team |-> OrDefault(team, "Unknown Team"),
     priority |-> OrDefault(priority, "P2"),
     work_id |-> line,
     subject |-> "CI Issue",
     type |-> "CI Issue"]

security_issue(line, team, priority) ==
    [team |-> OrDefault(team, "Unknown Team"),
     work_id |-> line,
     subject |-> "Security Issue",
     status |-> "New",
     bug_type |-> "Security Bug",
     priority |-> OrDefault(priority, "P4")]

leftshift_issue(line, team, priority) ==
    [team |-> OrDefault(team, "Unknown Team"),
     work_id |-> line,
     subject |-> "Left Shift Issue",
     status |-> "New",
     priority |-> OrDefault(priority, "P2")]

(***************************************************************************)
(* QualityDataCollector._parse_text_prbs                                   *)
(***************************************************************************)
\* the label of a tier digit
prb_label(digit) ==
    IF digit = "0" THEN "P0-Critical"
    ELSE IF digit = "1" THEN "P1-High"
    ELSE IF digit = "2" THEN "P2-Medium"
    ELSE IF digit = "3" THEN "P3-Low"
    ELSE "P4-Minimal"

\* the priority as a fold over the window: the last matching line wins
prb_priority_window(ls, k) ==
    LET H == {j \in Range(Max(0, k - 5), Min(Len(ls), k + 50)) :
                 \/ TierParenAt(Strip(At(ls, j))) # {}
                 \/ Strip(At(ls, j)) \in tier_tokens}
    IN  IF H = {} THEN "Medium"
        ELSE LET c == Strip(At(ls, MaxOf(H)))
             IN  IF c \in tier_tokens THEN prb_label(Ch(c, 2)) ELSE prb_label(TierParenDigit(c))

\* the priority, from the line exactly one before the PRB line
prb_priority(ls, k) ==
    IF k > 0
    THEN LET priority_line == Strip(At(ls, k - 1))
             paren == IF TierParenAt(priority_line) # {}
                      THEN prb_label(TierParenDigit(priority_line))
                      ELSE "Medium"
         IN  IF priority_line \in tier_tokens
             THEN prb_label(Ch(priority_line, 2))
             ELSE paren
    ELSE "Medium"

prb_context_start(ls, k) == Max(0, k - 5)

prb_context_end(ls, k) == Min(Len(ls), k + 50)

prb_detail_start(ls, k) == Max(0, k - 20)

prb_detail_end(ls, k) == Min(Len(ls), k + 50)

prb_internal_impact == "Feature degradation / disruption (internal service impact)"

prb_team_substrings ==
    <<"SDB Performance", "CRM Database Sustaining Engineering", "Site Reliability",
      "CRM DB Replication and Recovery as a Service">>

\* team after the 'Extract team names' branch of the first window scan
prb_team_scan(ls, k) ==
    LET J == Range(prb_context_start(ls, k), prb_context_end(ls, k))
        C == [j \in J |-> Strip(At(ls, j))]
        team == [j \in {j \in J : C[j] \in {"SDB", "Cloud"} \/ AnyIn(prb_team_substrings, C[j])} |->
                    IF C[j] \in {"SDB", "Cloud"} THEN C[j] ELSE FirstIn(prb_team_substrings, C[j])]
    IN  LastAssigned(team, "Unknown")

\* team after 'Extract team information more accurately'
prb_team_override(ls, k) ==
    LET J == Range(prb_detail_start(ls, k), prb_detail_end(ls, k))
        IsTeamField(j) == StartsWith(Strip(At(ls, j)), "Team:") /\ ~ In("Team Name", At(ls, j))
        team == [j \in {j \in J : \/ IsTeamField(j)
                                  \/ Strip(At(ls, j)) = "SDB"
                                  \/ Strip(At(ls, j)) = "Cloud"
                                  \/ (In("Database", At(ls, j)) /\ Len(Strip(At(ls, j))) < 20)} |->
                    IF IsTeamField(j) THEN Strip(Remove(At(ls, j), "Team:")) ELSE Strip(At(ls, j))]
    IN  FirstAssigned(team, prb_team_scan(ls, k))

\* the team left by the earlier scans, not reset before the last one
prb_team_kept(ls, k) ==
    LET J == Range(prb_detail_start(ls, k), prb_detail_end(ls, k))
        C(j) == Strip(At(ls, j))
    IN  IF \E j \in J : C(j) = "SDB Archival" THEN "SDB Archival"
        ELSE IF \E j \in J : C(j) = "Cloud" /\ j > 15 THEN "Cloud"
        ELSE prb_team_override(ls, k)

\* team after 'Extract Team (look for team assignment ...)': reset, then rescanned
prb_team(ls, k) ==
    LET J == Range(prb_detail_start(ls, k), prb_detail_end(ls, k))
        C(j) == Strip(At(ls, j))
    IN  IF \E j \in J : C(j) = "SDB Archival" THEN "SDB Archival"
        ELSE IF \E j \in J : C(j) = "Cloud" /\ j > 15 THEN "Cloud"
        ELSE "Unknown"

\* status and problem_state share their assignments; only the defaults differ
prb_state(ls, k, default) ==
    LET J == Range(prb_context_start(ls, k), prb_context_end(ls, k))
        state == [j \in {j \in J : Strip(At(ls, j)) \in ({"Analysis Complete", "Waiting 3rd Party", "Open", "Resolved", "In Progress"})} |-> Strip(At(ls, j))]
    IN  LastAssigned(state, default)

prb_created_date(ls, k, now) ==
    LET J == Range(prb_context_start(ls, k), prb_context_end(ls, k))
        C == [j \in J |-> Strip(At(ls, j))]
        created_date == [j \in {j \in J : HasDate(C[j]) /\ StrptimeOk(DateMatch(C[j]))} |->
                            Strftime(DateMatch(C[j]))]
    IN  LastAssigned(created_date, now)

\* customer_impact after the first window scan
prb_impact_scan(ls, k) ==
    LET J == Range(prb_context_start(ls, k), prb_context_end(ls, k))
        C == [j \in J |-> Strip(At(ls, j))]
        impact == [j \in {j \in J : In(prb_internal_impact, C[j]) \/ C[j] \in ({"Performance degradation (general)", "Service unavailable", "Data loss"})} |->
                      IF In(prb_internal_impact, C[j]) THEN prb_internal_impact ELSE C[j]]
    IN  LastAssigned(impact, "Unknown")

\* the 'Customer Impact' heading at j whose next line is read
prb_impact_heading(ls, j) == In("Customer Impact", At(ls, j)) /\ j < Len(ls) - 1

\* the line at j ends the 'Extract customer impact more accurately' loop
prb_impact_found(ls, j) ==
    IF prb_impact_heading(ls, j)
    THEN LET next_line == Strip(At(ls, j + 1))
         IN  next_line # "" /\ Len(next_line) > 5 /\ ~ In("External RCA", next_line)
    ELSE In(prb_internal_impact, At(ls, j))

\* customer_impact after 'Extract customer impact more accurately'
prb_customer_impact(ls, k) ==
    LET J == Range(prb_detail_start(ls, k), prb_detail_end(ls, k))
        impact == [j \in {j \in J : prb_impact_found(ls, j)} |->
                      IF prb_impact_heading(ls, j) THEN Strip(At(ls, j + 1)) ELSE prb_internal_impact]
    IN  FirstAssigned(impact, prb_impact_scan(ls, k))

prb_user_experience(ls, k) ==
    LET J == Range(prb_detail_start(ls, k), prb_detail_end(ls, k))
        experience ==
            [j \in {j \in J : In("User Experience:", At(ls, j)) \/ In("Customer Experience", At(ls, j))} |->
                IF In(":", At(ls, j))
                THEN LET ue == Strip(AfterFirst(At(ls, j), ":"))
                     IN  IF In("|", ue) THEN Strip(BeforeFirst(ue, "|")) ELSE ue
                ELSE ""]
    IN  FirstAssigned(experience, "")

prb_cause_stop == {"How did we find out", "How was it Resolved"}

RECURSIVE prb_cause_lines(_, _, _)
\* cause_lines collected over range(r, e), up to the break (the lines of the
\* documents are ASCII, so the test for a line that is one U+200B is left out)
prb_cause_lines(ls, r, e) ==
    IF r >= e THEN <<>>
    ELSE LET c == Strip(At(ls, r))
         IN  IF /\ c # ""
                /\ ~ \E kw \in ({"How did we find out", "How was it Resolved", "Root Cause", "Next Steps"}) : In(kw, c)
                /\ ~ StartsWith(c, "Q:") /\ ~ StartsWith(c, "A:")
             THEN <<c>> \o prb_cause_lines(ls, r + 1, e)
             ELSE IF \E kw \in prb_cause_stop : In(kw, c)
                  THEN <<>>
                  ELSE prb_cause_lines(ls, r + 1, e)

RECURSIVE prb_cause_read(_, _, _)
\* the indices of range(r, e) read by that loop, up to the break
prb_cause_read(ls, r, e) ==
    IF r >= e THEN {}
    ELSE LET c == Strip(At(ls, r))
         IN  IF \E kw \in prb_cause_stop : In(kw, c)
             THEN {r}
             ELSE {r} \cup prb_cause_read(ls, r + 1, e)

prb_cause_heading(ls, j) == In("Proximate Cause", At(ls, j)) /\ In("?", At(ls, j))

\* a line that states the cause on its own
prb_is_cause_line(c) ==
    \/ StartsWith(c, "Proximate Cause:")
    \/ (In("ERR release", c) /\ In("version mismatch", c))
    \/ (In("caused", Lower(c)) /\ \E w \in ({"mismatch", "incompatible", "failure", "error"}) : In(w, Lower(c)))

prb_proximate_cause(ls, k) ==
    LET J == Range(prb_detail_start(ls, k), prb_detail_end(ls, k))
        structured == [j \in {j \in J : prb_cause_heading(ls, j)} |->
                          Join(prb_cause_lines(ls, j + 1, Min(Len(ls), j + 10)), " ")]
        standalone == [j \in {j \in J : prb_is_cause_line(Strip(At(ls, j)))} |->
                          IF StartsWith(Strip(At(ls, j)), "Proximate Cause:")
                          THEN Strip(Remove(Strip(At(ls, j)), "Proximate Cause:"))
                          ELSE Strip(At(ls, j))]
    IN  IF FirstAssigned(structured, "") # ""
        THEN FirstAssigned(structured, "")
        ELSE FirstAssigned(standalone, "")

\* a line that describes the incident
prb_is_happened_line(c) ==
    /\ c # "" /\ Len(c) > 30
    /\ ~ \E sk \in ({"[THIS PRB IS MANAGED BY QUIP2GUS]", "User Experience:", "Impact Quantification:", "Q:", "A:", "https://", "Proximate Cause:", "Key Questions", "Created Date Time", "Select all rows", "Sorted by", "Select row for Drill Down"}) : In(sk, c)
    /\ \/ In("SDB Archival is not running", c)
       \/ In("archival is not running", c)
       \/ \E ind \in ({"not running for sdb", "backup", "capacity constraints", "clusters in hyperforce"}) : In(ind, Lower(c))

prb_what_happened(ls, k) ==
    LET J == Range(prb_detail_start(ls, k), prb_detail_end(ls, k))
        happened == [j \in {j \in J : prb_is_happened_line(Strip(At(ls, j)))} |-> Strip(At(ls, j))]
    IN  FirstAssigned(happened, "")

RECURSIVE prb_work_items(_, _)
\* work_items collected over the whole document, from line r on
prb_work_items(ls, r) ==
    IF r >= Len(ls) THEN <<>>
    ELSE LET c == Strip(At(ls, r))
         IN  IF (StartsWith(c, "1)") \/ StartsWith(c, "2)") \/ StartsWith(c, "3)")) /\ In("W-", c)
             THEN <<c>> \o prb_work_items(ls, r + 1)
             ELSE prb_work_items(ls, r + 1)

prb_next_steps(ls, k) == Join(prb_work_items(ls, 0), " ")

prb_is_resolved_line(c) == (\E kw \in ({"rolled back", "rollback", "restarted", "pods were restarted"}) : In(kw, Lower(c))) /\ Len(c) > 20

\* a line of the 'Resolution section' that has a line after it
prb_is_resolution_line(ls, j) ==
    (\E kw \in ({"how was it resolved", "rollback", "failover", "resolution involved", "self resolved"}) : In(kw, Lower(At(ls, j)))) /\ j + 1 < Min(Len(ls), j + 5)

\* 'Look directly for the actual resolution line', then the 'Resolution section'
\* loop, which assigns the line_content left over from the first loop
prb_how_resolved(ls, k) ==
    LET J == Range(prb_detail_start(ls, k), prb_detail_end(ls, k))
        direct == [j \in {j \in J : prb_is_resolved_line(Strip(At(ls, j)))} |-> Strip(At(ls, j))]
        line_content == FirstAssigned(direct, Strip(At(ls, MaxOf(J))))
    IN  IF \E j \in J : prb_is_resolution_line(ls, j)
        THEN line_content
        ELSE FirstAssigned(direct, "")

prb_steps_heading(l) ==
    \/ In("next steps", Lower(l))
    \/ (StartsWith(l, "1)") /\ In("testing", Lower(l)))
    \/ (StartsWith(l, "2)") /\ \E w \in {"alert", "monitoring", "pipeline"} : In(w, Lower(l)))

\* the line indices read while the record of the anchor at k is built
prb_reads(ls, k) ==
    LET J1 == Range(prb_context_start(ls, k), prb_context_end(ls, k))
        J2 == Range(prb_detail_start(ls, k), prb_detail_end(ls, k))
        impact_seen == {j \in J2 : \A h \in J2 : prb_impact_found(ls, h) => j <= h}
        cause_at == {j \in J2 : prb_cause_heading(ls, j)}
        steps_at == {j \in J2 : prb_steps_heading(At(ls, j))}
    IN  (IF k > 0 THEN {k - 1} ELSE {})
        \cup J1 \cup J2
        \cup {j + 1 : j \in {h \in impact_seen : prb_impact_heading(ls, h)}}
        \cup (IF cause_at = {} THEN {}
              ELSE prb_cause_read(ls, MinOf(cause_at) + 1, Min(Len(ls), MinOf(cause_at) + 10)))
        \cup Range(0, Len(ls))
        \cup {j + 1 : j \in {h \in J2 : prb_is_resolution_line(ls, h)}}
        \cup (IF steps_at = {} THEN {}
              ELSE Range(MinOf(steps_at) + 1, Min(Len(ls), MinOf(steps_at) + 10)))

\* the PRBItem built for the anchor at line k, with the attributes added to it
PRBItem(ls, k, now) ==
    LET prb_id == PrbId(Strip(At(ls, k)))
        customer_impact == prb_customer_impact(ls, k)
        problem_state == prb_state(ls, k, "Unknown")
        team == prb_team(ls, k)
    IN  [id |-> prb_id,
         title |-> IF customer_impact # "Unknown"
                   THEN prb_id \o ": " \o customer_impact
                   ELSE prb_id \o ": " \o problem_state \o " - " \o team,
         priority |-> prb_priority(ls, k),
         status |-> prb_state(ls, k, "Open"),
         description |-> "Problem report " \o prb_id \o " managed by " \o team,
         created_date |-> prb_created_date(ls, k, now),
         what_happened |-> prb_what_happened(ls, k),
         proximate_cause |-> prb_proximate_cause(ls, k),
         how_resolved |-> prb_how_resolved(ls, k),
         next_steps |-> prb_next_steps(ls, k),
         user_experience |-> prb_user_experience(ls, k),
         team |-> team,
         customer_impact |-> customer_impact]

(***************************************************************************)
(* Input documents.  Each parser is run on every document made of an       *)
(* optional first line, a run of blank lines and a short tail, over lines  *)
(* of its own export format; the blank runs are as long as the parser's    *)
(* windows, so that lines fall outside the window of an anchor.            *)
(***************************************************************************)
MaxTail == 2

MaxDay == 2

SeqsUpTo(A, n) == UNION {[1..m -> A] : m \in 0..n}

Blank(n) == [j \in 1..n |-> ""]

\* leads blank lines, an optional line, pads blank lines and a tail
Docs(A, leads, pads) ==
    {Blank(l) \o h \o Blank(p) \o t :
        l \in leads, h \in SeqsUpTo(A, 1), p \in pads, t \in SeqsUpTo(A, MaxTail)}
        \ {<<>>}

Scenario ==
    <<"W-12345678", "Login service timeout", "P1", "SDBStore", "Open", "01/15/2024">>

MaxExtra == 2

\* documents of anchor lines only, around the cap of _parse_text_bugs: line j
\* holds work item j, except that line b repeats work item a
CapDocs ==
    {[j \in 1..n |-> "W-000000" \o ZFill2(ToStr(IF j = ab[2] THEN ab[1] ELSE j))] :
        n \in (BugCap - 1)..(BugCap + MaxExtra),
        ab \in {x \in {1, BugCap - 1, BugCap, BugCap + 1} \X {2, BugCap, BugCap + 1, BugCap + MaxExtra} :
                   x[1] <= x[2]}}

Trackers == {"ss", "ci", "security", "leftshift"}

\* the documents of the proximity parsers: a few lines around an anchor, and
\* documents where several lines of one window give the same field
ProximityInputs ==
    ({"prbs"} \X Docs(({"PRB-0000001", "P1(3)", "2/30/2024", "1) fix W-00000001", "Cloud"}), {0}, {0, 20}))
    \cup ({"prbs"} \X {<<"PRB-0000001">> \o Blank(p) \o t :
              p \in {0, 16}, t \in SeqsUpTo({"Cloud", "SDB Archival", "Site Reliability"}, 2)})
    \cup ({"prbs"} \X {<<"PRB-0000001">> \o t :
              t \in SeqsUpTo({"failover", "we rolled back the release", "filler text"}, 2)})
    \cup ({"bugs"} \X (Docs(({"W-00000001", " W-00000002 x", "Login service timeout", "P1(2)", "Jane Doe"}), {0, 1}, {0, 8}) \cup {Scenario}))
    \cup ({"sf"} \X Docs(({"W-00000001", "P3 SDBStore Triaged", "Sayonara TxP sdb.258.4 In Progress New", "13/45/2024", "Subtotal(12)"}), {0}, {0, 15}))
    \cup ({"sf"} \X (SeqsUpTo({"W-00000001", "P1 sdb.260 1/2/2024 Waiting", "P3 SDBStore Triaged",
                                "Sayonara TxP sdb.258.4 In Progress New"}, 3) \ {<<>>}))
    \cup ({"sec"} \X Docs(({"W-00000001", "OVERRUN in /a/b.cpp (x)", "Jane Doe", "sdb.258", "Sayonara TxP"}), {0}, {0, 8}))

\* the documents of all parsers: for the trackers, headers and anchors, lines
\* that only resemble them, and anchors of _parse_ss_security_bugs followed by
\* up to five lines
Inputs == ProximityInputs
    \cup (Trackers \X Docs(({"W-00000001", "P2(7)", "Sayonara Data Management(7)", "Production(3)", "P1(2)"}), {0}, {0, 4}))
    \cup (Trackers \X (SeqsUpTo({"P2(7)", "SDB(3)", "Sayonara (beta)", "W-00000001 x", "W-1"}, 3) \ {<<>>}))
    \cup ({"ss"} \X {<<"W-00000001">> \o t :
              t \in SeqsUpTo({"W-00000002", "P1(2)", "Sayonara Data Management(7)", ""}, 5)})

(***************************************************************************)
(* One invocation of a parser on the collector / dashboard object          *)
(***************************************************************************)
NoSections == [p1_start |-> 0, p1_end |-> 0, p2_start |-> 0, p2_end |-> 0]

\* running values kept on the object from one invocation to the next
tracker_kept(p) ==
    IF run > 1 THEN [team |-> current_team, priority |-> current_priority]
    ELSE IF p = "ss" THEN [team |-> Some("Unknown"), priority |-> Some("P4")]
    ELSE [team |-> None, priority |-> None]

\* the running team and priority a parse invocation starts with
tracker_init(p) ==
    IF p = "ss" THEN [team |-> Some("Unknown"), priority |-> Some("P4")]
    ELSE [team |-> None, priority |-> None]

\* no second invocation
NoFrame ==
    [lines |-> <<>>, pc |-> "none", i |-> 0, out |-> <<>>, result |-> <<>>,
     team |-> None, priority |-> None]

\* the object is constructed, one of inputs is about to be parsed, and a second
\* invocation of the same parser (one of others) waits to be started
InitFrames(inputs, others) ==
    /\ \E in \in inputs : parser = in[1] /\ lines = in[2]
    /\ other \in others
    /\ pc = "idle"
    /\ i = 0
    /\ out = <<>>
    /\ result = <<>>
    /\ clock = 1
    /\ current_team = None
    /\ current_priority = None
    /\ sect = NoSections
    /\ run = 1
    /\ current_risk = <<>>
    /\ prev = ([lines |-> <<>>, out |-> <<>>, result |-> <<>>, day |-> 0])

\* the object is constructed and one of inputs is about to be parsed
InitWith(inputs) == InitFrames(inputs, {NoFrame})

Init == InitWith(Inputs)

\* the caller invokes the parser on the document
Call ==
    /\ pc = "idle"
    /\ i' = 0
    /\ out' = <<>>
    /\ result' = <<>>
    /\ current_team' = tracker_init(parser).team
    /\ current_priority' = tracker_init(parser).priority
    /\ sect' = IF parser = "bugs" THEN SectionBounds(lines) ELSE NoSections
    /\ pc' = IF parser = "ss" /\ lines = <<"">> THEN "done"
             ELSE IF parser = "bugs" /\ bug_count_raises(lines) THEN "ValueError"
             ELSE "scan"
    /\ current_risk' = <<>>
    /\ UNCHANGED <<parser, lines, clock, run, prev, other>>

IsPrbLine(line) == PrbIdAt(line) # {}

IsWorkLine(line) == WorkIdAt(line) # {}

\* one iteration of the main loop of _parse_text_prbs: an anchor line yields its
\* record, and a read outside the list raises
parse_text_prbs_step ==
    /\ parser = "prbs"
    /\ pc = "scan"
    /\ i < Len(lines)
    /\ IF IsPrbLine(Strip(At(lines, i)))
       THEN IF prb_reads(lines, i) \subseteq 0..(Len(lines) - 1)
            THEN /\ out' = Append(out, [idx |-> i, rec |-> PRBItem(lines, i, Today(clock))])
                 /\ i' = i + 1
                 /\ pc' = pc
            ELSE /\ pc' = "IndexError"
                 /\ UNCHANGED <<out, i>>
       ELSE /\ i' = i + 1
            /\ UNCHANGED <<out, pc>>
    /\ UNCHANGED <<parser, lines, result, clock, current_team, current_priority, sect, run, prev, other, current_risk>>

\* one iteration of the main loop of _parse_text_bugs
parse_text_bugs_step ==
    /\ parser = "bugs"
    /\ pc = "scan"
    /\ i < Len(lines)
    /\ IF IsWorkLine(Strip(At(lines, i)))
       THEN IF bug_reads(lines, i) \subseteq 0..(Len(lines) - 1)
            THEN /\ out' = Append(out, [idx |-> i, rec |-> BugItem(lines, i, sect, Today(clock))])
                 /\ i' = i + 1
                 /\ pc' = pc
            ELSE /\ pc' = "IndexError"
                 /\ UNCHANGED <<out, i>>
       ELSE /\ i' = i + 1
            /\ UNCHANGED <<out, pc>>
    /\ UNCHANGED <<parser, lines, result, clock, current_team, current_priority, sect, run, prev, other, current_risk>>

\* one iteration of the main loop of _parse_salesforce_issues
parse_salesforce_issues_step ==
    /\ parser = "sf"
    /\ pc = "scan"
    /\ i < Len(lines)
    /\ IF IsWorkLine(Strip(At(lines, i)))
       THEN IF sf_reads(lines, i) \subseteq 0..(Len(lines) - 1)
            THEN /\ out' = Append(out, [idx |-> i, rec |-> SalesforceIssue(lines, i, Today(clock))])
                 /\ i' = i + 1
                 /\ pc' = pc
            ELSE /\ pc' = "IndexError"
                 /\ UNCHANGED <<out, i>>
       ELSE /\ i' = i + 1
            /\ UNCHANGED <<out, pc>>
    /\ UNCHANGED <<parser, lines, result, clock, current_team, current_priority, sect, run, prev, other, current_risk>>

\* one iteration of the main loop of _parse_security_issues
parse_security_issues_step ==
    /\ parser = "sec"
    /\ pc = "scan"
    /\ i < Len(lines)
    /\ IF IsWorkLine(Strip(At(lines, i)))
       THEN IF sec_reads(lines, i) \subseteq 0..(Len(lines) - 1)
            THEN /\ out' = Append(out, [idx |-> i, rec |-> SecurityIssue(lines, i)])
                 /\ i' = i + 1
                 /\ pc' = pc
            ELSE /\ pc' = "IndexError"
                 /\ UNCHANGED <<out, i>>
       ELSE /\ i' = i + 1
            /\ UNCHANGED <<out, pc>>
    /\ UNCHANGED <<parser, lines, result, clock, current_team, current_priority, sect, run, prev, other, current_risk>>

\* one iteration of the main loop of _parse_ss_security_bugs
parse_ss_security_bugs_step ==
    /\ parser = "ss"
    /\ pc = "scan"
    /\ i < Len(lines)
    /\ LET line == Strip(At(lines, i))
       IN  IF ss_is_priority_line(line)
           THEN /\ current_priority' = IF BeforeFirst(line, "(") \in tier_tokens
                                       THEN Some(BeforeFirst(line, "("))
                                       ELSE current_priority
                /\ i' = i + 1
                /\ UNCHANGED <<current_team, out, pc>>
           ELSE IF ss_is_team_line(line)
           THEN /\ current_team' = LET team_part == Strip(BeforeFirst(line, "("))
                                   IN  IF Len(team_part) > 5 /\ team_part \notin {"Subtotal", "Total"}
                                       THEN Some(team_part)
                                       ELSE current_team
                /\ i' = i + 1
                /\ UNCHANGED <<current_priority, out, pc>>
           ELSE IF StartsWith(line, "W-")
           THEN IF ss_reads(lines, i) \subseteq 0..(Len(lines) - 1)
                THEN /\ out' = Append(out, [idx |-> i,
                                            rec |-> SecurityBug(lines, i, current_team[1], current_priority[1])])
                     /\ i' = ss_after_anchor(i)
                     /\ UNCHANGED <<current_team, current_priority, pc>>
                ELSE /\ pc' = "IndexError"
                     /\ UNCHANGED <<current_team, current_priority, out, i>>
           ELSE /\ i' = i + 1
                /\ UNCHANGED <<current_team, current_priority, out, pc>>
    /\ UNCHANGED <<parser, lines, result, clock, sect, run, prev, other, current_risk>>

\* one iteration of the loop over the lines of parse_ci_data
parse_ci_data_step ==
    /\ parser = "ci"
    /\ pc = "scan"
    /\ i < Len(lines)
    /\ i' = i + 1
    /\ LET line == Strip(At(lines, i))
       IN  IF dash_skipped(line, ci_skip_words)
           THEN UNCHANGED <<current_team, current_priority, out>>
           ELSE IF ci_is_team_line(line)
           THEN /\ current_team' = Some(Strip(BeforeFirst(line, "(")))
                /\ UNCHANGED <<current_priority, out>>
           ELSE IF dash_is_priority_line(line)
           THEN /\ current_priority' = Some(Strip(BeforeFirst(line, "(")))
                /\ UNCHANGED <<current_team, out>>
           ELSE IF StartsWith(line, "W-")
           THEN /\ out' = Append(out, [idx |-> i, rec |-> ci_issue(line, current_team, current_priority)])
                /\ UNCHANGED <<current_team, current_priority>>
           ELSE UNCHANGED <<current_team, current_priority, out>>
    /\ UNCHANGED <<parser, lines, pc, result, clock, sect, run, prev, other, current_risk>>

\* one iteration of the loop over the lines of parse_security_data
parse_security_data_step ==
    /\ parser = "security"
    /\ pc = "scan"
    /\ i < Len(lines)
    /\ i' = i + 1
    /\ LET line == Strip(At(lines, i))
       IN  IF dash_skipped(line, ci_skip_words)
           THEN UNCHANGED <<current_team, current_priority, out>>
           ELSE IF ci_is_team_line(line)
           THEN /\ current_team' = Some(Strip(BeforeFirst(line, "(")))
                /\ UNCHANGED <<current_priority, out>>
           ELSE IF dash_is_priority_line(line)
           THEN /\ current_priority' = Some(Strip(BeforeFirst(line, "(")))
                /\ UNCHANGED <<current_team, out>>
           ELSE IF StartsWith(line, "W-")
           THEN /\ out' = Append(out, [idx |-> i, rec |-> security_issue(line, current_team, current_priority)])
                /\ UNCHANGED <<current_team, current_priority>>
           ELSE UNCHANGED <<current_team, current_priority, out>>
    /\ UNCHANGED <<parser, lines, pc, result, clock, sect, run, prev, other, current_risk>>

\* one iteration of the loop over the lines of parse_leftshift_data
parse_leftshift_data_step ==
    /\ parser = "leftshift"
    /\ pc = "scan"
    /\ i < Len(lines)
    /\ i' = i + 1
    /\ LET line == Strip(At(lines, i))
       IN  IF dash_skipped(line, leftshift_skip_words)
           THEN UNCHANGED <<current_team, current_priority, out>>
           ELSE IF leftshift_is_team_line(line)
           THEN /\ current_team' = Some(Strip(BeforeFirst(line, "(")))
                /\ UNCHANGED <<current_priority, out>>
           ELSE IF dash_is_priority_line(line)
           THEN /\ current_priority' = Some(Strip(BeforeFirst(line, "(")))
                /\ UNCHANGED <<current_team, out>>
           ELSE IF StartsWith(line, "W-")
           THEN /\ out' = Append(out, [idx |-> i, rec |-> leftshift_issue(line, current_team, current_priority)])
                /\ UNCHANGED <<current_team, current_priority>>
           ELSE UNCHANGED <<current_team, current_priority, out>>
    /\ UNCHANGED <<parser, lines, pc, result, clock, sect, run, prev, other, current_risk>>

\* the identifier of a record of parser p
(***************************************************************************)
(* QualityDataCollector._parse_text_risks                                  *)
(***************************************************************************)
\* the fields of the RiskItem dataclass: RiskItem(**d) raises TypeError unless
\* the keys of d are exactly these
risk_fields == {"feature", "status", "priority", "description", "last_updated"}

\* the dict d after d[key] = line.replace(prefix, '').strip()
risk_set(d, key, line, prefix) ==
    [f \in DOMAIN d \cup {key} |-> IF f = key THEN Strip(Remove(line, prefix)) ELSE d[f]]

\* one iteration of the loop over the lines of _parse_text_risks
parse_text_risks_step ==
    /\ parser = "risks"
    /\ pc = "scan"
    /\ i < Len(lines)
    /\ LET line == Strip(At(lines, i))
       IN  IF line = "" \/ StartsWith(line, "#")
           THEN i' = i + 1 /\ UNCHANGED <<current_risk, out, pc>>
           ELSE IF StartsWith(line, "Feature:")
           THEN IF DOMAIN current_risk # {} /\ DOMAIN current_risk # risk_fields
                THEN pc' = "TypeError" /\ UNCHANGED <<current_risk, out, i>>
                ELSE /\ out' = IF DOMAIN current_risk = {} THEN out
                               ELSE Append(out, [idx |-> i, rec |-> current_risk])
                     /\ current_risk' = risk_set(<<>>, "feature", line, "Feature:")
                     /\ i' = i + 1
                     /\ UNCHANGED pc
           ELSE /\ current_risk' =
                      IF StartsWith(line, "Status:") THEN risk_set(current_risk, "status", line, "Status:")
                      ELSE IF StartsWith(line, "Priority:")
                      THEN risk_set(current_risk, "priority", line, "Priority:")
                      ELSE IF StartsWith(line, "Description:")
                      THEN risk_set(current_risk, "description", line, "Description:")
                      ELSE IF StartsWith(line, "Updated:")
                      THEN risk_set(current_risk, "last_updated", line, "Updated:")
                      ELSE current_risk
                /\ i' = i + 1
                /\ UNCHANGED <<out, pc>>
    /\ UNCHANGED <<parser, lines, result, clock, current_team, current_priority, sect, run, prev, other>>

\* after the loop: the last block is completed with the defaults and appended
parse_text_risks_end ==
    /\ parser = "risks"
    /\ pc = "scan"
    /\ i >= Len(lines)
    /\ IF DOMAIN current_risk = {}
       THEN /\ result' = [n \in 1..Len(out) |-> out[n].rec]
            /\ pc' = "done"
            /\ UNCHANGED <<current_risk, out>>
       ELSE /\ current_risk' =
                  [f \in DOMAIN current_risk \cup (risk_fields \ {"feature"}) |->
                      IF f \in DOMAIN current_risk THEN current_risk[f]
                      ELSE IF f = "status" THEN "Unknown"
                      ELSE IF f = "priority" THEN "Medium"
                      ELSE IF f = "description" THEN ""
                      ELSE Today(clock)]
            /\ IF "feature" \in DOMAIN current_risk
               THEN /\ out' = Append(out, [idx |-> i, rec |-> current_risk'])
                    /\ result' = [n \in 1..Len(out') |-> out'[n].rec]
                    /\ pc' = "done"
               ELSE /\ pc' = "TypeError"
                    /\ UNCHANGED <<out, result>>
    /\ UNCHANGED <<parser, lines, i, clock, current_team, current_priority, sect, run, prev, other>>

IdOf(p, rec) ==
    IF p \in {"prbs", "bugs", "ss"} THEN rec.id ELSE rec.work_id

RECURSIVE UniqueKeepLast(_, _, _)
\* a deduplication that keeps the last record of an identifier
UniqueKeepLast(p, recs, seen_ids) ==
    IF recs = <<>> THEN <<>>
    ELSE IF \A n \in 2..Len(recs) : IdOf(p, recs[n]) # IdOf(p, Head(recs))
         THEN <<Head(recs)>> \o UniqueKeepLast(p, Tail(recs), seen_ids)
         ELSE UniqueKeepLast(p, Tail(recs), seen_ids)

RECURSIVE Unique(_, _, _)
\* the seen_ids loop: a record is kept unless its identifier was seen before
Unique(p, recs, seen_ids) ==
    IF recs = <<>> THEN <<>>
    ELSE IF IdOf(p, Head(recs)) \notin seen_ids
         THEN <<Head(recs)>> \o Unique(p, Tail(recs), seen_ids \cup {IdOf(p, Head(recs))})
         ELSE Unique(p, Tail(recs), seen_ids)

\* the records collected by the main loop, in order
Collected == [n \in 1..Len(out) |-> out[n].rec]

\* bugs[:30]
Capped(recs) == SubSeq(recs, 1, Min(BugCap, Len(recs)))

\* a return that limits the result after removing duplicates
ReturnedCapLast(p, recs) ==
    IF p \in {"prbs", "sf"} THEN Unique(p, recs, {})
    ELSE IF p = "bugs" THEN Capped(Unique(p, recs, {}))
    ELSE recs

\* what the parser returns once the main loop is over
Returned(p, recs) ==
    IF p \in {"prbs", "sf"} THEN Unique(p, recs, {})
    ELSE IF p = "bugs" THEN Unique(p, Capped(recs), {})
    ELSE recs

\* the main loop is over: remove duplicates (where the parser does) and return
Return ==
    /\ pc = "scan"
    /\ i >= Len(lines)
    /\ result' = Returned(parser, Collected)
    /\ pc' = "done"
    /\ UNCHANGED <<parser, lines, i, out, clock, current_team, current_priority, sect, run, prev, other, current_risk>>

\* the same document is parsed again by the same object; the model follows an
\* invocation and the one before it
Again ==
    /\ pc = "done"
    /\ run = 1
    /\ prev' = [lines |-> lines, out |-> out, result |-> result, day |-> clock]
    /\ run' = run + 1
    /\ pc' = "idle"
    /\ UNCHANGED <<parser, lines, i, out, result, clock, current_team, current_priority, sect, other, current_risk>>

\* midnight passes between two invocations (an invocation runs within one day)
Tick ==
    /\ pc = "idle"
    /\ run > 1
    /\ clock < MaxDay
    /\ clock' = clock + 1
    /\ UNCHANGED <<parser, lines, pc, i, out, result, current_team, current_priority, sect, run, prev, other, current_risk>>

Next ==
    \/ Call
    \/ parse_text_prbs_step
    \/ parse_text_bugs_step
    \/ parse_salesforce_issues_step
    \/ parse_security_issues_step
    \/ parse_ss_security_bugs_step
    \/ parse_ci_data_step
    \/ parse_security_data_step
    \/ parse_leftshift_data_step
    \/ Return
    \/ Again
    \/ Tick

Spec == Init /\ [][Next]_vars

\* a second document is parsed by the same object on the same day: the first
\* one with one of its lines blanked, or without its last line
Edit ==
    /\ pc = "done"
    /\ run = 1
    /\ \/ \E j \in {j \in 1..Len(lines) : lines[j] # ""} : lines' = [lines EXCEPT ![j] = ""]
       \/ Len(lines) > 1 /\ lines' = SubSeq(lines, 1, Len(lines) - 1)
    /\ prev' = [lines |-> lines, out |-> out, result |-> result, day |-> clock]
    /\ run' = run + 1
    /\ pc' = "idle"
    /\ UNCHANGED <<parser, i, out, result, clock, current_team, current_priority, sect, other, current_risk>>

NextPair ==
    \/ Call
    \/ parse_text_prbs_step
    \/ parse_text_bugs_step
    \/ parse_salesforce_issues_step
    \/ parse_security_issues_step
    \/ Return
    \/ Edit

SpecPair == (InitWith(ProximityInputs)) /\ [][NextPair]_vars

RECURSIVE Rep(_, _)
\* the string of n copies of the character c
Rep(c, n) ==
    IF n = 0 THEN "" ELSE IF n = 1 THEN c ELSE Rep(c, n \div 2) \o Rep(c, n - n \div 2)

\* a work item alone, or followed by one of those lines
TitleDocs == {<<"W-00000001">>} \cup {<<"W-00000001", t>> : t \in ({Rep("a", n) : n \in {9, 10, 11, 80, 100, 101, 150, 151}} \cup {"-", "Subtotal(12) of all", "  " \o Rep("a", 11) \o " ", "[EA][PROD] " \o Rep("b", 69), "[EA][PROD] " \o Rep("b", 70)})}

NextTitle ==
    \/ Call
    \/ parse_text_bugs_step
    \/ parse_salesforce_issues_step
    \/ Return

SpecTitle == (InitWith({"bugs", "sf"} \X TitleDocs)) /\ [][NextTitle]_vars

\* a priority header with a count of that many digits, then up to two lines
CountDocs ==
    {<<"P1(" \o Rep("9", n) \o ")">> \o t :
        n \in ({1, 2, int_max_str_digits - 1, int_max_str_digits, int_max_str_digits + 1}), t \in SeqsUpTo({"W-00000001", "Jane Doe"}, 2)}

NextCount ==
    \/ Call
    \/ parse_text_bugs_step
    \/ Return

SpecCount == (InitWith({"bugs"} \X CountDocs)) /\ [][NextCount]_vars

\* the team and priority an invocation finds in its own local variables when it
\* resumes, whatever the object holds that now runs
tracker_resume_shared(saved, running) == running

\* the team and priority an invocation finds in its local variables when it resumes
tracker_resume(saved, running) == saved

\* the running invocation is suspended and the other one runs: each keeps its
\* own lines, cursor, records and running team and priority
Switch ==
    /\ other.pc # "none"
    /\ other' = [lines |-> lines, pc |-> pc, i |-> i, out |-> out, result |-> result,
                 team |-> current_team, priority |-> current_priority]
    /\ lines' = other.lines
    /\ pc' = other.pc
    /\ i' = other.i
    /\ out' = other.out
    /\ result' = other.result
    /\ current_team' = tracker_resume(other.team, current_team)
    /\ current_priority' = tracker_resume(other.priority, current_priority)
    /\ UNCHANGED <<parser, clock, sect, run, prev, current_risk>>

MaxPair == 2

TwoDocs == SeqsUpTo(({"W-00000001", "P1(2)", "Sayonara Data Management(7)"}), MaxPair) \ {<<>>}

NextTwo ==
    \/ Call
    \/ parse_ss_security_bugs_step
    \/ parse_ci_data_step
    \/ parse_security_data_step
    \/ parse_leftshift_data_step
    \/ Return
    \/ Switch

SpecTwo == (InitFrames(Trackers \X TwoDocs, {[NoFrame EXCEPT !.lines = b, !.pc = "idle"] : b \in TwoDocs})) /\ [][NextTwo]_vars

\* _parse_text_risks on documents of up to three lines of a risk file, and on a
\* document of one complete block followed by a second Feature line
NextRisk ==
    \/ Call
    \/ parse_text_risks_step
    \/ parse_text_risks_end

SpecRisk ==
    InitWith({"risks"} \X
        ((SeqsUpTo({"Feature: login", "Feature: search", "Status: On Track", "Priority: High",
                    "Description: d", "Updated: 2024-01-15", "# Feature: x"}, 3) \ {<<>>})
         \cup {<<"Feature: login", "Status: On Track", "Priority: High", "Description: d",
                 "Updated: 2024-01-15", "Feature: search">>}))
      /\ [][NextRisk]_vars

NextCap ==
    \/ Call
    \/ parse_text_bugs_step
    \/ Return

SpecCap == (InitWith({"bugs"} \X CapDocs)) /\ [][NextCap]_vars

(***************************************************************************)
(* Properties                                                              *)
(***************************************************************************)
Deduplicating == {"prbs", "bugs", "sf"}

CoreParsers == {"prbs", "bugs", "sf", "sec", "ss"}

\* the entries of out that are eligible to be returned
Eligible == IF parser = "bugs" THEN SubSeq(out, 1, Min(30, Len(out))) ELSE out

\* the positions of Eligible that hold the first record of their identifier
FirstPositions ==
    {m \in 1..Len(Eligible) :
        \A m2 \in 1..(m - 1) : IdOf(parser, Eligible[m2].rec) # IdOf(parser, Eligible[m].rec)}

\* C1: the list returned by _parse_text_prbs, _parse_text_bugs (within its first
\* 30 anchors) and _parse_salesforce_issues is the per-anchor records in document
\* order with every later record of an already-seen identifier removed, so the
\* record returned for an identifier is the one built at its first anchor line.
C1_FirstOccurrenceWins ==
    (pc = "done" /\ parser \in Deduplicating) =>
        LET firsts == FirstPositions
            AnchorId(j) == LET line == Strip(At(lines, j))
                           IN  IF parser = "prbs"
                               THEN (IF IsPrbLine(line) THEN PrbId(line) ELSE "")
                               ELSE (IF IsWorkLine(line) THEN WorkId(line) ELSE "")
        IN  /\ Len(result) = Cardinality(firsts)
            /\ \A m \in firsts :
                  /\ result[Cardinality({m2 \in firsts : m2 <= m})] = Eligible[m].rec
                  /\ AnchorId(Eligible[m].idx) = IdOf(parser, Eligible[m].rec)
                  /\ \A j \in 0..(Eligible[m].idx - 1) : AnchorId(j) # IdOf(parser, Eligible[m].rec)

\* C1 witness: an identifier anchored twice with different records, first one returned
C1_Witness ==
    /\ pc = "done" /\ parser \in Deduplicating
    /\ \E m1, m2 \in 1..Len(Eligible) :
          /\ m1 < m2
          /\ IdOf(parser, Eligible[m1].rec) = IdOf(parser, Eligible[m2].rec)
          /\ Eligible[m1].rec # Eligible[m2].rec
          /\ \E n \in 1..Len(result) : result[n] = Eligible[m1].rec

\* C2: in the list returned by any core parser no two records carry the same
\* identifier.
C2_OneRecordPerIdentifier ==
    (pc = "done" /\ parser \in CoreParsers) =>
        \A n1, n2 \in 1..Len(result) :
            n1 # n2 => IdOf(parser, result[n1]) # IdOf(parser, result[n2])

RECURSIVE AnchorIds(_, _)
\* the identifiers of the work-item anchor lines of ls from line k on, in order
AnchorIds(ls, k) ==
    IF k >= Len(ls) THEN <<>>
    ELSE IF IsWorkLine(Strip(At(ls, k)))
         THEN <<WorkId(Strip(At(ls, k)))>> \o AnchorIds(ls, k + 1)
         ELSE AnchorIds(ls, k + 1)

\* C3: _parse_text_bugs caps at 30 anchors before deduplication: the result holds
\* exactly the distinct identifiers of the first 30 anchors, in order of first
\* occurrence; so never more than 30 records, exactly 30 when the first 30 are
\* distinct, fewer when they repeat, and never an identifier first anchored 31st
\* or later.
C3_CapBeforeDedup ==
    (pc = "done" /\ parser = "bugs") =>
        LET ids == AnchorIds(lines, 0)
            first30 == SubSeq(ids, 1, Min(30, Len(ids)))
            firstAnchor == [n \in 1..Len(result) |->
                               MinOf({m \in 1..Len(ids) : ids[m] = result[n].id} \cup {Len(ids) + 1})]
        IN  /\ Len(result) <= 30
            /\ Len(result) = Cardinality({first30[n] : n \in 1..Len(first30)})
            /\ (Len(ids) > 30 /\ Cardinality({first30[n] : n \in 1..Len(first30)}) = 30)
                  => Len(result) = 30
            /\ \A n \in 1..Len(result) : firstAnchor[n] <= Min(30, Len(ids))
            /\ \A n \in 1..(Len(result) - 1) : firstAnchor[n] < firstAnchor[n + 1]

\* C3 witness: more than 30 anchors, a repeat among the first 30 and an unseen
\* identifier after them: fewer than 30 records
C3_Witness ==
    /\ pc = "done" /\ parser = "bugs"
    /\ LET ids == AnchorIds(lines, 0)
       IN  /\ Len(ids) > 30
           /\ Len(result) < 30
           /\ \E n \in 31..Len(ids) : \A m \in 1..30 : ids[m] # ids[n]

\* the record without its date field
WithoutDate(p, rec) ==
    IF p \in {"prbs", "sf"} THEN [rec EXCEPT !.created_date = ""]
    ELSE IF p = "bugs" THEN [rec EXCEPT !.reported_date = ""]
    ELSE rec

\* the date field of the record
DateOf(p, rec) ==
    IF p \in {"prbs", "sf"} THEN rec.created_date
    ELSE IF p = "bugs" THEN rec.reported_date
    ELSE ""

IsAnchor(p, ls, k) ==
    IF p = "prbs" THEN IsPrbLine(Strip(At(ls, k)))
    ELSE IF p = "ss" THEN
        /\ StartsWith(Strip(At(ls, k)), "W-")
        /\ ~ ss_is_priority_line(Strip(At(ls, k)))
        /\ ~ ss_is_team_line(Strip(At(ls, k)))
    ELSE IsWorkLine(Strip(At(ls, k)))

\* the line indices parser p reads for the anchor at k
ReadsAt(p, ls, k) ==
    IF p = "prbs" THEN prb_reads(ls, k)
    ELSE IF p = "bugs" THEN bug_reads(ls, k)
    ELSE IF p = "sf" THEN sf_reads(ls, k)
    ELSE IF p = "sec" THEN sec_reads(ls, k)
    ELSE ss_reads(ls, k)

\* the bounds of the windows parser p scans for the anchor at k
WindowBounds(p, ls, k) ==
    IF p = "prbs" THEN {prb_context_start(ls, k), prb_context_end(ls, k),
                        prb_detail_start(ls, k), prb_detail_end(ls, k)}
    ELSE IF p = "bugs" THEN {bug_context_start(ls, k), bug_context_end(ls, k)}
    ELSE IF p = "sf" THEN {sf_context_start(ls, k), sf_context_end(ls, k)}
    ELSE IF p = "sec" THEN {sec_context_start(ls, k), sec_context_end(ls, k)}
    ELSE {}

\* C5: for an anchor at any line index of any core parser, every line index read
\* while its record is built lies in [0, len(lines)-1], the window bounds lie in
\* [0, len(lines)], and no index error is raised.
C5_ReadsInBounds ==
    /\ pc # "IndexError"
    /\ (pc = "scan" /\ parser \in CoreParsers /\ i < Len(lines) /\ IsAnchor(parser, lines, i)) =>
          /\ ReadsAt(parser, lines, i) \subseteq 0..(Len(lines) - 1)
          /\ WindowBounds(parser, lines, i) \subseteq 0..Len(lines)

\* C5 witness: an anchor on the last line of a document, after one on its first line
C5_Witness ==
    /\ pc = "scan" /\ parser \in CoreParsers
    /\ i = Len(lines) - 1 /\ i > 0
    /\ IsAnchor(parser, lines, i)
    /\ IsAnchor(parser, lines, 0)
    /\ Len(out) > 0

\* no line of the window of the anchor at k matches a classifier of parser p
NothingRecognised(p, ls, k) ==
    IF p = "bugs" THEN
        /\ \A j \in Range(Max(0, k - 3), Min(Len(ls), k + 8)) :
              LET c == Strip(At(ls, j))
              IN  /\ ~ AnyIn(bug_team_patterns, c)
                  /\ \A t \in 1..Len(bug_status_patterns) : c # bug_status_patterns[t]
                  /\ ~ HasDate(c)
                  /\ ~ In("SDBFalcon", c)
                  /\ ~ bug_is_assignee(ls, k, j)
                  /\ TierParenAt(c) = {} /\ c \notin tier_tokens
        /\ bug_title(ls, k) = "Unknown Issue"
    ELSE IF p = "sf" THEN
        \A j \in Range(Max(0, k - 15), Min(Len(ls), k + 10)) :
            LET c == Strip(At(ls, j))
            IN  /\ ~ AnyIn(sf_team_patterns, c)
                /\ Tier14At(c) = {}
                /\ ~ AnyIn(sf_status_patterns, c)
                /\ VersionAt(c) = {}
                /\ ~ HasDate(c)
                /\ ~ (j = k + 1 /\ Len(c) > 10 /\ ~ StartsWith(c, "Subtotal"))
    ELSE
        \A j \in Range(Max(0, k - 5), Min(Len(ls), k + 8)) :
            LET c == Strip(At(ls, j))
            IN  /\ ~ AnyIn(security_categories, c)
                /\ ~ sec_is_assignee(ls, k, j)
                /\ VersionAt(c) = {}
                /\ ~ In("Sayonara", c)

\* the default template of parser p for the identifier id on the day now
DefaultTemplate(p, id, now) ==
    IF p = "bugs" THEN
        [id |-> id, title |-> "Unknown Issue", severity |-> "P2-Medium", status |-> "Open",
         description |-> "Assigned: Unknown, Customer: Unknown", component |-> "Unknown",
         reported_date |-> now]
    ELSE IF p = "sf" THEN
        [work_id |-> id, team |-> "Unknown", priority |-> "P2", subject |-> "Unknown Issue",
         status |-> "New", build_version |-> "Unknown", created_date |-> now]
    ELSE
        [work_id |-> id, issue_category |-> "UNKNOWN", file_path |-> "", assigned_to |-> "Unassigned",
         status |-> "New", build_version |-> "Unknown", team |-> "Security", issue_type |-> "Security"]

\* C6: in _parse_text_bugs, _parse_salesforce_issues and _parse_security_issues,
\* an anchor whose window has no line that matches any attribute classifier
\* yields the default template of its kind with its identifier, wherever the
\* anchor sits in the document.
C6_DefaultTemplate ==
    (pc \in {"scan", "done"} /\ parser \in {"bugs", "sf", "sec"}) =>
        \A n \in 1..Len(out) :
            NothingRecognised(parser, lines, out[n].idx) =>
                out[n].rec = DefaultTemplate(parser, IdOf(parser, out[n].rec), Today(clock))

\* C7: a field holds its default only if no line of the window matched its
\* classifier, and a value a classifier produced is not replaced by the default
\* afterwards; stated for the team (component) of every proximity parser.
C7_DefaultOnlyIfUnmatched ==
    (pc \in {"scan", "done"}) =>
        \A n \in 1..Len(out) :
            LET k == out[n].idx
                rec == out[n].rec
            IN  /\ parser = "prbs" =>
                      (rec.team = "Unknown" => prb_team_override(lines, k) = "Unknown")
                /\ parser = "bugs" =>
                      (rec.component = "Unknown" =>
                          \A j \in Range(Max(0, k - 3), Min(Len(lines), k + 8)) :
                              ~ AnyIn(bug_team_patterns, Strip(At(lines, j))))
                /\ parser = "sf" =>
                      (rec.team = "Unknown" =>
                          \A j \in Range(Max(0, k - 15), Min(Len(lines), k + 10)) :
                              ~ AnyIn(sf_team_patterns, Strip(At(lines, j))))
                /\ parser = "sec" =>
                      (rec.team = "Security" =>
                          \A j \in Range(Max(0, k - 5), Min(Len(lines), k + 8)) :
                              ~ In("Sayonara", Strip(At(lines, j))))

\* the lines before and after the anchor that the window of parser p spans
ContextBefore(p) == IF p = "prbs" THEN 20 ELSE IF p = "bugs" THEN 3 ELSE IF p = "sf" THEN 15 ELSE 5

ContextAfter(p) == IF p = "prbs" THEN 50 ELSE IF p = "sf" THEN 10 ELSE 8

\* documents a and b agree on every line of the window of parser p around index k
SameWindow(p, a, b, k) ==
    LET lo == Max(0, k - ContextBefore(p))
    IN  /\ k < Len(a) /\ k < Len(b)
        /\ Min(Len(a), k + ContextAfter(p)) = Min(Len(b), k + ContextAfter(p))
        /\ \A j \in Range(lo, Min(Len(a), k + ContextAfter(p))) : At(a, j) = At(b, j)

\* C8: two documents that place the same anchor at the same line index and agree
\* on every line of its context window give that anchor the same record, field
\* by field, in every proximity parser; lines outside the window influence nothing.
C8_WindowOnlyVisibility ==
    (pc \in {"scan", "done"} /\ run = 2) =>
        \A n \in 1..Len(out) : \A m \in 1..Len(prev.out) :
            (out[n].idx = prev.out[m].idx /\ SameWindow(parser, prev.lines, lines, out[n].idx))
                => out[n].rec = prev.out[m].rec

RECURSIVE ss_visited(_, _)
\* the line indices at which the loop of _parse_ss_security_bugs looks, from k on
ss_visited(ls, k) ==
    IF k >= Len(ls) THEN {}
    ELSE {k} \cup ss_visited(ls, IF StartsWith(Strip(At(ls, k)), "W-") THEN k + 5 ELSE k + 1)

\* the line indices tracker p processes
Processed(p, ls) == IF p = "ss" THEN ss_visited(ls, 0) ELSE 0..(Len(ls) - 1)

\* the team the line at j declares to tracker p, if it is a team header
TeamAt(p, ls, j) ==
    LET line == Strip(At(ls, j))
        name == Strip(BeforeFirst(line, "("))
    IN  IF p = "ss" THEN
            IF ~ ss_is_priority_line(line) /\ ss_is_team_line(line)
               /\ Len(name) > 5 /\ name \notin {"Subtotal", "Total"}
            THEN Some(name) ELSE None
        ELSE IF p = "leftshift" THEN
            IF ~ dash_skipped(line, leftshift_skip_words) /\ leftshift_is_team_line(line)
            THEN Some(name) ELSE None
        ELSE
            IF ~ dash_skipped(line, ci_skip_words) /\ ci_is_team_line(line)
            THEN Some(name) ELSE None

\* the priority the line at j declares to tracker p, if it is a priority header
PriorityAt(p, ls, j) ==
    LET line == Strip(At(ls, j))
        name == Strip(BeforeFirst(line, "("))
    IN  IF p = "ss" THEN
            IF ss_is_priority_line(line) /\ BeforeFirst(line, "(") \in tier_tokens
            THEN Some(BeforeFirst(line, "(")) ELSE None
        ELSE IF TeamAt(p, ls, j) = None
                /\ ~ dash_skipped(line, IF p = "leftshift" THEN leftshift_skip_words ELSE ci_skip_words)
                /\ dash_is_priority_line(line)
            THEN Some(name) ELSE None

\* the team of the last team header processed before index k
LatestTeam(p, ls, k) ==
    LET H == {j \in Processed(p, ls) : j < k /\ TeamAt(p, ls, j) # None}
    IN  IF H = {} THEN None ELSE TeamAt(p, ls, MaxOf(H))

\* the priority of the last priority header processed before index k
LatestPriority(p, ls, k) ==
    LET H == {j \in Processed(p, ls) : j < k /\ PriorityAt(p, ls, j) # None}
    IN  IF H = {} THEN None ELSE PriorityAt(p, ls, MaxOf(H))

DefaultTeam(p) == IF p = "ss" THEN "Unknown" ELSE "Unknown Team"

DefaultPriority(p) == IF p \in {"ss", "security"} THEN "P4" ELSE "P2"

RecTeam(p, rec) == IF p = "ss" THEN rec.component ELSE rec.team

RecTier(p, rec) == IF p = "ss" THEN Sub(rec.priority, 1, 2) ELSE rec.priority

FixedLabel(d) ==
    IF d = "0" THEN "Critical"
    ELSE IF d = "1" THEN "High"
    ELSE IF d = "2" THEN "Medium"
    ELSE IF d = "3" THEN "Low"
    ELSE "Minimal"

\* the tier digit the stripped line c declares, "" when it declares none
TierDigitOf(c) ==
    IF c \in {"P0", "P1", "P2", "P3", "P4"} THEN Ch(c, 2)
    ELSE IF TierParenAt(c) # {} THEN TierParenDigit(c)
    ELSE ""

\* the lines of the window [k-5, k+50) of a problem report that declare a tier
TierLinesInWindow(ls, k) ==
    {j \in Range(Max(0, k - 5), Min(Len(ls), k + 50)) : TierDigitOf(Strip(At(ls, j))) # ""}

\* C11 (as claimed): the priority of a problem report is the tier of the last
\* line of the anchor's context window that matches Pn(count) or is a bare Pn,
\* and 'Medium' only if no window line matches.
C11_LastTierLineOfWindow ==
    (parser = "prbs" /\ pc \in {"scan", "done"}) =>
        \A n \in 1..Len(out) :
            LET H == TierLinesInWindow(lines, out[n].idx)
            IN  out[n].rec.priority =
                    IF H = {} THEN "Medium"
                    ELSE LET d == TierDigitOf(Strip(At(lines, MaxOf(H))))
                         IN  "P" \o d \o "-" \o FixedLabel(d)

\* C11 (amended): the priority of a problem report is the tier of the line
\* immediately before the anchor line, when that line contains Pn(count) or is a
\* bare Pn (n in 0..4), and 'Medium' otherwise, whatever the other window lines hold.
C11_TierOfPrecedingLine ==
    (parser = "prbs" /\ pc \in {"scan", "done"}) =>
        \A n \in 1..Len(out) :
            LET k == out[n].idx
                d == IF k > 0 THEN TierDigitOf(Strip(At(lines, k - 1))) ELSE ""
            IN  out[n].rec.priority =
                    IF d = "" THEN "Medium" ELSE "P" \o d \o "-" \o FixedLabel(d)

\* C11 witness: one report takes the tier of the line before it, another keeps
\* 'Medium' although a tier line follows it in its window
C11_Witness ==
    /\ parser = "prbs" /\ pc = "done"
    /\ \E n \in 1..Len(out) :
          /\ out[n].idx > 0
          /\ Strip(At(lines, out[n].idx - 1)) = "P1(3)"
          /\ out[n].rec.priority = "P1-High"
    /\ \E n \in 1..Len(out) :
          /\ out[n].rec.priority = "Medium"
          /\ TierLinesInWindow(lines, out[n].idx) # {}

\* C12 (as claimed): a priority derived from a tier token Pn is 'Pn-<label>' with
\* the one label fixed for n (Critical, High, Medium, Low, Minimal) in both
\* _parse_text_prbs and _parse_ss_security_bugs.
C12_OneLabelPerTier ==
    (parser \in {"prbs", "ss"} /\ pc \in {"scan", "done"}) =>
        \A n \in 1..Len(out) :
            LET pr == out[n].rec.priority
            IN  (IF parser = "ss"
                 THEN LatestPriority("ss", lines, out[n].idx) # None
                 ELSE pr # "Medium") =>
                    pr = Sub(pr, 1, 2) \o "-" \o FixedLabel(Ch(pr, 2))

\* the label _parse_ss_security_bugs gives tier digit d
SecurityLabel(d) ==
    IF d \in {"0", "1"} THEN "Critical"
    ELSE IF d = "2" THEN "Medium"
    ELSE "Low"

\* C12 (amended): the label is fixed per record kind: problem reports use
\* 0 Critical, 1 High, 2 Medium, 3 Low, 4 Minimal; security bugs use 0 and 1
\* Critical, 2 Medium, 3 and 4 Low; both emit 'Pn-<label>' for every n in 0..4.
C12_LabelPerKind ==
    /\ \A d \in {"0", "1", "2", "3", "4"} :
          /\ prb_label(d) = "P" \o d \o "-" \o FixedLabel(d)
          /\ ss_label("P" \o d) = SecurityLabel(d)
    /\ (parser \in {"prbs", "ss"} /\ pc \in {"scan", "done"}) =>
          \A n \in 1..Len(out) :
              LET pr == out[n].rec.priority
                  d == Ch(pr, 2)
              IN  (parser = "ss" \/ pr # "Medium") =>
                      /\ d \in {"0", "1", "2", "3", "4"}
                      /\ pr = "P" \o d \o "-" \o
                              (IF parser = "ss" THEN SecurityLabel(d) ELSE FixedLabel(d))

\* C12 witness: a security bug stamped under a P1 header
C12_Witness ==
    /\ parser = "ss" /\ pc = "done"
    /\ \E n \in 1..Len(result) :
          /\ result[n].priority = "P1-Critical"
          /\ LatestPriority("ss", lines, out[n].idx) = Some("P1")

\* the earliest entry of the list pats that occurs in a line of range(lo, hi)
EarliestListed(pats, ls, lo, hi) ==
    LET hits == {t \in 1..Len(pats) : \E j \in Range(lo, hi) : In(pats[t], Strip(At(ls, j)))}
    IN  IF hits = {} THEN "Unknown" ELSE pats[MinOf(hits)]

\* C13: the component of _parse_text_bugs and the team of _parse_salesforce_issues
\* are the earliest entry of the parser's team list that occurs in any line of
\* the anchor's window, whichever line holds it, and 'Unknown' only if none occurs.
C13_EarliestListedTeam ==
    (parser \in {"bugs", "sf"} /\ pc \in {"scan", "done"}) =>
        \A n \in 1..Len(out) :
            LET k == out[n].idx
            IN  IF parser = "bugs"
                THEN out[n].rec.component =
                         EarliestListed(bug_team_patterns, lines, Max(0, k - 3), Min(Len(lines), k + 8))
                ELSE out[n].rec.team =
                         EarliestListed(sf_team_patterns, lines, Max(0, k - 15), Min(Len(lines), k + 10))

\* s is YYYY-MM-DD and names a day of the calendar
IsCalendarDate(s) ==
    /\ Len(s) = 10
    /\ AllDigits(s, 1, 4) /\ Ch(s, 5) = "-" /\ AllDigits(s, 6, 2) /\ Ch(s, 8) = "-" /\ AllDigits(s, 9, 2)
    /\ ToInt(Sub(s, 1, 4)) >= 1
    /\ ToInt(Sub(s, 6, 7)) \in 1..12
    /\ ToInt(Sub(s, 9, 10)) \in 1..DaysIn(ToInt(Sub(s, 6, 7)), ToInt(Sub(s, 1, 4)))

\* C14: in _parse_text_prbs, _parse_text_bugs and _parse_salesforce_issues a
\* date-shaped text that is not a valid month/day/year leaves the date field
\* unchanged and raises nothing, so every record's date is the invocation date
\* or a valid calendar date rendered YYYY-MM-DD.
C14_DateDefaultOrValid ==
    (parser \in {"prbs", "bugs", "sf"} /\ pc \in {"scan", "done"}) =>
        \A n \in 1..Len(out) :
            \/ DateOf(parser, out[n].rec) = Today(clock)
            \/ IsCalendarDate(DateOf(parser, out[n].rec))

\* the lines after the anchor at k, within hi, that read as a person's name:
\* exactly two tokens and none of the keywords
NameLines(ls, k, hi, keywords) ==
    {j \in Range(k + 1, Min(Len(ls), hi)) :
        /\ WordCount(Strip(At(ls, j))) = 2
        /\ ~ \E w \in keywords : In(w, Lower(Strip(At(ls, j))))}

\* the first of them, or the default
FirstName(ls, k, hi, keywords, default) ==
    IF NameLines(ls, k, hi, keywords) = {} THEN default
    ELSE Strip(At(ls, MinOf(NameLines(ls, k, hi, keywords))))

\* C16: the assignee of _parse_text_bugs and _parse_security_issues is the first
\* window line strictly after the anchor that is exactly two tokens and holds no
\* blacklisted keyword; a later such line never replaces it, and the default
\* stands only if there is none.
C16_FirstNameLineWins ==
    (parser \in {"bugs", "sec"} /\ pc \in {"scan", "done"}) =>
        \A n \in 1..Len(out) :
            LET k == out[n].idx
            IN  IF parser = "sec"
                THEN out[n].rec.assigned_to =
                         FirstName(lines, k, k + 8, {"test", "error", "exception"}, "Unassigned")
                ELSE StartsWith(out[n].rec.description,
                         "Assigned: " \o FirstName(lines, k, k + 8,
                             {"sdb", "queue", "falcon", "usa", "ind", "deu", "gbr"}, "Unknown")
                         \o ", Customer: ")

\* the stripped line right after the anchor at k, "" when there is none
NextLine(ls, k) == IF k + 1 < Len(ls) THEN Strip(At(ls, k + 1)) ELSE ""

\* C15 (as claimed): the subject (_parse_salesforce_issues, at most 150
\* characters) or title (_parse_text_bugs, at most 100) is 'Unknown Issue' when
\* the line after the anchor is missing, has 10 characters or fewer or is a skip
\* token, and otherwise a verbatim prefix of that line no longer than the maximum.
C15_TitleVerbatimPrefix ==
    (parser \in {"bugs", "sf"} /\ pc \in {"scan", "done"}) =>
        \A n \in 1..Len(out) :
            LET t == NextLine(lines, out[n].idx)
            IN  IF parser = "sf"
                THEN out[n].rec.subject =
                         IF Len(t) > 10 /\ ~ StartsWith(t, "Subtotal") THEN Sub(t, 1, 150)
                         ELSE "Unknown Issue"
                ELSE out[n].rec.title =
                         IF Len(t) > 10 /\ t # "-" THEN Sub(t, 1, 100) ELSE "Unknown Issue"

\* C15 (amended): the subject is as claimed; the title of _parse_text_bugs is the
\* line itself when it fits the limit (100 characters, 80 when the line contains
\* '[EA][PROD]') and otherwise its first 100 (80) characters followed by '...'.
C15_TitleWithEllipsis ==
    (parser \in {"bugs", "sf"} /\ pc \in {"scan", "done"}) =>
        \A n \in 1..Len(out) :
            LET t == NextLine(lines, out[n].idx)
                limit == IF In("[EA][PROD]", t) THEN 80 ELSE 100
            IN  IF parser = "sf"
                THEN out[n].rec.subject =
                         IF Len(t) > 10 /\ ~ StartsWith(t, "Subtotal") THEN Sub(t, 1, 150)
                         ELSE "Unknown Issue"
                ELSE out[n].rec.title =
                         IF Len(t) > 10 /\ t # "-"
                         THEN (IF Len(t) <= limit THEN t ELSE Sub(t, 1, limit) \o "...")
                         ELSE "Unknown Issue"

\* C15 witness: a title cut from a line of 101 characters
C15_Witness ==
    /\ parser = "bugs" /\ pc = "done"
    /\ Len(result) = 1
    /\ Len(NextLine(lines, 0)) = 101
    /\ Len(result[1].title) = 103
    /\ EndsWith(result[1].title, "...")

\* C17: for every text, the five core parsers return a list and never reach an
\* exception state; the list is empty whenever no line is an anchor.
C17_NeverRaises ==
    /\ pc \notin {"IndexError", "ValueError"}
    /\ (pc = "done" /\ parser \in CoreParsers
            /\ \A j \in 0..(Len(lines) - 1) : ~ IsAnchor(parser, lines, j))
          => result = <<>>

\* C18: every core parse terminates: a parse that was called is scanning or has
\* returned, never stopped anywhere else; the cursor only moves forward (by 1, or
\* by 5 after an anchor of _parse_ss_security_bugs) and stays within the document
\* (plus that skip), so each line is tested as an anchor at most once.
C18_EveryParseReturns ==
    /\ pc \in {"idle", "scan", "done"}
    /\ (pc \in {"scan", "done"} /\ parser \in CoreParsers) =>
          /\ i <= Len(lines) + 4
          /\ \A n \in 1..Len(out) :
                /\ out[n].idx < i
                /\ n > 1 => out[n].idx >= out[n - 1].idx + (IF parser = "ss" THEN 5 ELSE 1)

\* the anchors tracker p meets in ls, in ascending order
TrackerAnchors(p, ls) ==
    LET A == {k \in Processed(p, ls) :
                 /\ StartsWith(Strip(At(ls, k)), "W-")
                 /\ p # "ss" => ~ dash_skipped(Strip(At(ls, k)),
                                     IF p = "leftshift" THEN leftshift_skip_words ELSE ci_skip_words)}
    IN  [n \in 1..Cardinality(A) |-> CHOOSE k \in A : Cardinality({j \in A : j < k}) = n - 1]

\* the records of parsing ls alone with a fresh tracker
AloneRecords(p, ls) ==
    [n \in 1..Len(TrackerAnchors(p, ls)) |->
        LET k == TrackerAnchors(p, ls)[n]
            team == LatestTeam(p, ls, k)
            priority == LatestPriority(p, ls, k)
        IN  IF p = "ss" THEN SecurityBug(ls, k, OrDefault(team, "Unknown"), OrDefault(priority, "P4"))
            ELSE IF p = "ci" THEN ci_issue(Strip(At(ls, k)), team, priority)
            ELSE IF p = "security" THEN security_issue(Strip(At(ls, k)), team, priority)
            ELSE leftshift_issue(Strip(At(ls, k)), team, priority)]

\* C19: the running team and priority of a tracker are local to one invocation:
\* for two documents parsed one after the other or with their steps interleaved
\* on the same object, each invocation returns the records of parsing its
\* document alone with a fresh tracker.
C19_TrackerStateIsLocal ==
    (parser \in Trackers /\ other.pc # "none") =>
        /\ pc = "done" => result = AloneRecords(parser, lines)
        /\ other.pc = "done" => other.result = AloneRecords(parser, other.lines)

\* C19 witness: an anchor stamped with the defaults although the other
\* invocation, over by now, read a priority header and a team header
C19_Witness ==
    /\ parser = "ss" /\ pc = "done" /\ other.pc = "done"
    /\ lines = <<"W-00000001">>
    /\ other.lines = <<"P1(2)", "Sayonara Data Management(7)">>
    /\ Len(result) = 1
    /\ result[1].priority = "P4-Low"
    /\ result[1].component = "Unknown"

\* C20: in every section-state tracker the running priority is unset or one of
\* the tier tokens P0..P4, so the priority tier stamped on every record is one of
\* P0, P1, P2, P3, P4.
C20_PriorityIsATier ==
    (parser \in Trackers /\ pc \in {"scan", "done"}) =>
        /\ current_priority \in {None} \cup {Some(t) : t \in {"P0", "P1", "P2", "P3", "P4"}}
        /\ \A n \in 1..Len(out) :
              RecTier(parser, out[n].rec) \in {"P0", "P1", "P2", "P3", "P4"}

(***************************************************************************)
(* Section-state trackers: header lines                                    *)
(***************************************************************************)
\* a line of the shape name(number): a name, '(', one or more digits, ')'
IsHeaderShape(line) ==
    /\ In("(", line)
    /\ BeforeFirst(line, "(") # ""
    /\ LET rest == AfterFirst(line, "(")
       IN  Len(rest) >= 2 /\ EndsWith(rest, ")") /\ AllDigits(rest, 1, Len(rest) - 1)

\* the name of a header line
HeaderName(line) == Strip(BeforeFirst(line, "("))

\* the tracker processes the line under its cursor
TrackerStep == parser \in Trackers /\ pc = "scan" /\ i < Len(lines) /\ i' > i

\* the header lines the trackers take as team headers
IsTeamHeader(p, line) ==
    /\ IsHeaderShape(line)
    /\ ~ StartsWith(line, "P") /\ ~ StartsWith(line, "W-")
    /\ IF p = "ss" THEN Len(HeaderName(line)) > 5 /\ HeaderName(line) \notin {"Subtotal", "Total"}
       ELSE IF p = "leftshift"
       THEN /\ \A w \in {"sorted by", "select row", "work:", "subtotal", "total("} : ~ In(w, Lower(line))
            /\ \E kw \in {"SDB", "Sayonara", "Production"} : In(kw, line)
       ELSE /\ \A w \in {"sorted by", "select row", "drill down", "work:", "subtotal", "total("} :
                  ~ In(w, Lower(line))
            /\ ~ In("issues)", line) /\ ~ In("/", line) /\ ~ In("-", line)
            /\ \E kw \in {"Sayonara", "SDB"} : In(kw, line)

\* C21 (as stated): in the section-state trackers a header line name(number)
\* whose name is not a priority-tier token, that does not start with 'W-' and
\* whose name is not 'Subtotal' or 'Total' sets the running team to name,
\* whatever the first letter and the length of name, and leaves the running
\* priority unchanged.
C21_EveryHeaderNameSetsTeam ==
    [][(/\ TrackerStep
        /\ IsHeaderShape(Strip(At(lines, i)))
        /\ HeaderName(Strip(At(lines, i))) \notin tier_tokens
        /\ ~ StartsWith(Strip(At(lines, i)), "W-")
        /\ HeaderName(Strip(At(lines, i))) \notin {"Subtotal", "Total"})
       => (/\ current_team' = Some(HeaderName(Strip(At(lines, i))))
           /\ current_priority' = current_priority)]_vars

\* C21 (amended): a header line name(number) sets the running team to name and
\* leaves the running priority unchanged when it starts with neither 'P' nor
\* 'W-' and, in _parse_ss_security_bugs, name has more than 5 characters and is
\* not 'Subtotal' or 'Total'; in the dashboard trackers, the line holds no skip
\* word and holds a team keyword (and, for parse_ci_data and
\* parse_security_data, none of 'issues)', '/', '-'). Every other header line
\* leaves the running team unchanged.
C21_TeamHeaderSetsTeam ==
    [][(TrackerStep /\ IsHeaderShape(Strip(At(lines, i)))) =>
          IF IsTeamHeader(parser, Strip(At(lines, i)))
          THEN /\ current_team' = Some(HeaderName(Strip(At(lines, i))))
               /\ current_priority' = current_priority
          ELSE current_team' = current_team]_vars

\* C21 witness: the short team header has just set the running team of
\* parse_ci_data, after a priority header that it left alone
C21_Witness ==
    /\ parser = "ci" /\ pc = "scan" /\ i = 2
    /\ lines = <<"P2(7)", "SDB(3)", "W-1">>
    /\ current_team = Some("SDB")
    /\ current_priority = Some("P2")

\* C22: in each section-state tracker, processing a line that is not of the
\* shape name(number) (an anchor line, a blank line, free text, or text whose
\* parenthesis does not hold a number) leaves both the running team and the
\* running priority unchanged.
C22_OnlyHeadersChangeState ==
    [][(TrackerStep /\ ~ IsHeaderShape(Strip(At(lines, i)))) =>
          (current_team' = current_team /\ current_priority' = current_priority)]_vars

\* the line at j is a header line name(number) and not an anchor line
IsHeaderLine(ls, j) ==
    IsHeaderShape(Strip(At(ls, j))) /\ ~ StartsWith(Strip(At(ls, j)), "W-")

\* a header line whose name is a priority-tier token
IsPriorityHeaderLine(ls, j) ==
    IsHeaderLine(ls, j) /\ HeaderName(Strip(At(ls, j))) \in tier_tokens

\* C23: a record whose anchor precedes every header line of the document is
\* stamped with the tracker's default team and default tier; a record with
\* only team headers before its anchor still has the default tier, and one
\* with only priority headers before its anchor still has the default team.
C23_DefaultsUntilHeaderSeen ==
    (parser \in Trackers /\ pc \in {"scan", "done"}) =>
        \A n \in 1..Len(out) :
            LET k == out[n].idx
            IN  /\ (\A j \in 0..(k - 1) : ~ IsHeaderLine(lines, j) \/ IsPriorityHeaderLine(lines, j))
                      => RecTeam(parser, out[n].rec) = DefaultTeam(parser)
                /\ (\A j \in 0..(k - 1) : ~ IsPriorityHeaderLine(lines, j))
                      => RecTier(parser, out[n].rec) = DefaultPriority(parser)

\* C24: in _parse_ss_security_bugs, after an anchor at line k the lines k+1,
\* k+2, k+3, k+4 (those that exist) are taken in that order as build_version,
\* assignee, status and description (an empty or missing line gives 'Unknown',
\* 'Security Issue' for the description), the scan resumes at line k+5, and
\* none of the four lines produces a record of its own or updates the running
\* team or priority, even if it looks like an anchor or a header.
C24_PositionalFieldsConsumed ==
    (parser = "ss" /\ pc \in {"scan", "done"}) =>
        \A n \in 1..Len(out) :
            LET k == out[n].idx
                rec == out[n].rec
                slot(d, default) ==
                    IF k + d < Len(lines) /\ Strip(lines[k + d + 1]) # ""
                    THEN Strip(lines[k + d + 1]) ELSE default
            IN  /\ rec.build_version = slot(1, "Unknown")
                /\ rec.assignee = slot(2, "Unknown")
                /\ rec.status = slot(3, "Unknown")
                /\ rec.description = slot(4, "Security Issue")
                /\ i >= k + 5
                /\ \A m \in 1..Len(out) : out[m].idx \notin (k + 1)..(k + 4)
                /\ (n = Len(out) /\ i = k + 5) =>
                      /\ current_team = Some(rec.component)
                      /\ current_priority = Some(RecTier("ss", rec))
                /\ (n < Len(out) /\ \A j \in (k + 5)..(out[n + 1].idx - 1) : Strip(lines[j + 1]) = "") =>
                      /\ out[n + 1].rec.component = rec.component
                      /\ out[n + 1].rec.priority = rec.priority

\* C24 witness: the four lines after the anchor look like a priority header, a
\* team header and two anchors; they are the fields of the one record, and the
\* anchor on line 5 is the second record, under the same team and priority
C24_Witness ==
    /\ parser = "ss" /\ pc = "done"
    /\ lines = <<"W-00000001", "P1(2)", "Sayonara Data Management(7)", "W-00000002",
                 "W-00000002", "W-00000002">>
    /\ Len(result) = 2
    /\ result[1].build_version = "P1(2)"
    /\ result[1].description = "W-00000002"
    /\ result[2].id = "W-00000002"
    /\ result[2].component = "Unknown"
    /\ result[2].priority = "P4-Low"

\* s is exactly 'PRB-' followed by 7 digits
IsPrbId(s) == Len(s) = 11 /\ Sub(s, 1, 4) = "PRB-" /\ AllDigits(s, 5, 7)

\* s is exactly 'W-' followed by 8 digits
IsWorkIdExactly(s) == Len(s) = 10 /\ Sub(s, 1, 2) = "W-" /\ AllDigits(s, 3, 8)

\* C25: every record returned by any parser has an identifier that is exactly
\* a string of its kind's anchor pattern: 'PRB-' and 7 digits for problem
\* reports, 'W-' and 8 digits for work items and security findings, the
\* section-state parsers included.
C25_IdentifierIsAnchorPattern ==
    pc = "done" =>
        \A n \in 1..Len(result) :
            IF parser = "prbs" THEN IsPrbId(IdOf(parser, result[n]))
            ELSE IsWorkIdExactly(IdOf(parser, result[n]))

\* the highest index of the window of the anchor at k whose stripped line
\* satisfies hit (a function on line indices)
LastMatching(ls, k, hit) == MaxOf({j \in sf_reads(ls, k) : hit[j]})

\* C26: in _parse_salesforce_issues, for each of priority, status, build
\* version and created date, the record holds the value taken from the
\* matching line with the highest index in the window
\* [max(0,k-15), min(len,k+10)) of its anchor, and the default when no line of
\* the window matches.
C26_LastMatchWins ==
    (parser = "sf" /\ pc \in {"scan", "done"}) =>
        \A n \in 1..Len(out) :
            LET k == out[n].idx
                rec == out[n].rec
                W == sf_reads(lines, k)
                L == [j \in W |-> Strip(lines[j + 1])]
                hasP == [j \in W |-> \E p \in 1..Len(L[j]) :
                            Sub(L[j], p, p + 1) \in {"P1", "P2", "P3", "P4"}]
                hasS == [j \in W |-> \E m \in 1..Len(sf_status_patterns) : In(sf_status_patterns[m], L[j])]
                hasV == [j \in W |-> VersionAt(L[j]) # {}]
                hasD == [j \in W |-> HasDate(L[j])]
            IN  /\ IF \E j \in W : hasP[j]
                   THEN rec.priority = Tier14(L[LastMatching(lines, k, hasP)])
                   ELSE rec.priority = "P2"
                /\ IF \E j \in W : hasS[j]
                   THEN In(rec.status, L[LastMatching(lines, k, hasS)])
                        /\ \E m \in 1..Len(sf_status_patterns) : rec.status = sf_status_patterns[m]
                   ELSE rec.status = "New"
                /\ IF \E j \in W : hasV[j]
                   THEN rec.build_version = Version(L[LastMatching(lines, k, hasV)])
                   ELSE rec.build_version = "Unknown"
                /\ IF \E j \in W : hasD[j]
                   THEN LET d == DateMatch(L[LastMatching(lines, k, hasD)])
                        IN  rec.created_date = d[3] \o "-" \o ZFill2(d[1]) \o "-" \o ZFill2(d[2])
                   ELSE rec.created_date = Today(clock)

\* C26 witness: a line before the anchor and a line after it give a status and
\* a build version each; the record holds those of the later line
C26_Witness ==
    /\ parser = "sf" /\ pc = "done"
    /\ lines = <<"Sayonara TxP sdb.258.4 In Progress New", "W-00000001",
                 "P1 sdb.260 1/2/2024 Waiting">>
    /\ Len(result) = 1
    /\ result[1].priority = "P1"
    /\ result[1].status = "Waiting"
    /\ result[1].build_version = "sdb.260"
    /\ result[1].created_date = "2024-01-02"

\* the tier digit of the last priority header Pd(n) above line k, if any
SectionAbove(ls, k) ==
    LET H == {j \in 0..(k - 1) : TierParenAt(Strip(At(ls, j))) # {}}
    IN  IF H = {} THEN None ELSE Some(TierParenDigit(Strip(At(ls, MaxOf(H)))))

\* C27: in _parse_text_bugs a work item's severity is that of the priority
\* section containing its anchor line: P1-High below a 'P1(n)' header (up to
\* the next priority header), P2-Medium below a 'P2(n)' header, for every
\* count n and every header position, line 0 included; P2-Medium for an
\* anchor in no section.
C27_SeverityOfSection ==
    (parser = "bugs" /\ pc \in {"scan", "done"}) =>
        \A n \in 1..Len(out) :
            LET k == out[n].idx
                sev == out[n].rec.severity
            IN  /\ SectionAbove(lines, k) = Some("1") => sev = "P1-High"
                /\ SectionAbove(lines, k) \in {None, Some("2")} => sev = "P2-Medium"

\* the indices, in document order, of the 'Feature:' lines of ls
FeatureLines(ls) ==
    LET IsFeature(j) == StartsWith(Strip(ls[j]), "Feature:")
    IN  SelectSeq([j \in 1..Len(ls) |-> j], IsFeature)

\* some line of the block of the n-th Feature line starts with prefix
BlockGives(ls, n, prefix) ==
    LET F == FeatureLines(ls)
        last == IF n < Len(F) THEN F[n + 1] - 1 ELSE Len(ls)
    IN  \E j \in F[n]..last : StartsWith(Strip(ls[j]), prefix)

\* C28: _parse_text_risks never raises and returns exactly one RiskItem per
\* 'Feature:' line, in document order; a field (status, priority, description,
\* last_updated) that the block does not give holds its default ('Unknown',
\* 'Medium', '', the invocation date).
C28_OneItemPerFeatureLine ==
    parser = "risks" =>
        /\ pc # "TypeError"
        /\ pc = "done" =>
              /\ Len(result) = Len(FeatureLines(lines))
              /\ \A n \in 1..Len(result) :
                    /\ result[n].feature
                          = Strip(Remove(Strip(lines[FeatureLines(lines)[n]]), "Feature:"))
                    /\ ~ BlockGives(lines, n, "Status:") => result[n].status = "Unknown"
                    /\ ~ BlockGives(lines, n, "Priority:") => result[n].priority = "Medium"
                    /\ ~ BlockGives(lines, n, "Description:") => result[n].description = ""
                    /\ ~ BlockGives(lines, n, "Updated:") => result[n].last_updated = Today(clock)

\* C29: the team of every PRBItem of _parse_text_prbs is 'SDB Archival' if a
\* stripped line of [k-20, k+50) equals 'SDB Archival', else 'Cloud' if a
\* stripped line of that range at an index above 15 equals 'Cloud', else
\* 'Unknown'; the title (when it names a team) and the description carry the
\* same text, and no other team pattern of the window reaches the record.
C29_TeamIsArchivalCloudOrUnknown ==
    (parser = "prbs" /\ pc \in {"scan", "done"}) =>
        \A n \in 1..Len(out) :
            LET k == out[n].idx
                rec == out[n].rec
                W == {j \in 0..(Len(lines) - 1) : k - 20 <= j /\ j < k + 50}
                expected ==
                    IF \E j \in W : Strip(lines[j + 1]) = "SDB Archival" THEN "SDB Archival"
                    ELSE IF \E j \in W : j > 15 /\ Strip(lines[j + 1]) = "Cloud" THEN "Cloud"
                    ELSE "Unknown"
            IN  /\ rec.team = expected
                /\ EndsWith(rec.description, " managed by " \o expected)
                /\ rec.customer_impact = "Unknown" => EndsWith(rec.title, " - " \o expected)

\* C29 witness: 'Site Reliability' and, above index 15, 'Cloud' in the window
\* of the anchor
C29_Witness ==
    /\ parser = "prbs" /\ pc = "done"
    /\ lines = <<"PRB-0000001">> \o Blank(16) \o <<"Site Reliability", "Cloud">>
    /\ Len(result) = 1
    /\ result[1].team = "Cloud"
    /\ result[1].title = "PRB-0000001: Unknown - Cloud"

\* C30: in _parse_text_prbs the how_resolved of every record is empty or the
\* stripped text of a line of the anchor's window [k-20, k+50) that itself
\* holds a resolution keyword.
C30_HowResolvedHoldsKeyword ==
    (parser = "prbs" /\ pc \in {"scan", "done"}) =>
        \A n \in 1..Len(out) :
            LET k == out[n].idx
                how == out[n].rec.how_resolved
            IN  \/ how = ""
                \/ \E j \in 0..(Len(lines) - 1) :
                      /\ k - 20 <= j /\ j < k + 50
                      /\ Strip(lines[j + 1]) = how
                      /\ \E kw \in {"rolled back", "rollback", "restarted", "how was it resolved",
                                    "failover", "resolution involved", "self resolved"} :
                            In(kw, Lower(lines[j + 1]))

====
